---------------------------- MODULE Spec2Model ----------------------------
(***************************************************************************)
(* A model of the generic repository (BaseRepository), the query-parameter *)
(* decoders (filterParamsDecoder, sortParamsDecoder, getNonFilterableFields,*)
(* queryToPagination, resultToPagination) and the exception classifier      *)
(* (AllExceptionsFilter) of shamim3696/project-template.                    *)
(*                                                                         *)
(* JavaScript values are tagged records: the tag t names the type and the  *)
(* payload sits in a field whose name depends on the type, so two values   *)
(* of different types never compare their payloads.                        *)
(***************************************************************************)
EXTENDS Integers, Sequences, FiniteSets, TLC

VARIABLES store, ret, response, nodeEnv, httpRequest, log, inFlight

vars == <<store, ret, response, nodeEnv, httpRequest, log, inFlight>>

(***************************************************************************)
(* Bounds of the model.                                                    *)
(***************************************************************************)
MaxRecords == 2
MaxDigit == 2
MaxEntries == 2
\* the longest request body, in fields
MaxFields == 2
\* the largest count of matching documents given to resultToPagination
MaxItems == 25

(***************************************************************************)
(* JavaScript / JSON values.                                               *)
(***************************************************************************)
Undefined == [t |-> "undefined"]
Null == [t |-> "null"]
Num(n) == [t |-> "number", n |-> n]
Str(s) == [t |-> "string", s |-> s]
Bool(b) == [t |-> "boolean", b |-> b]
Arr(items) == [t |-> "array", items |-> items]
ObjectId(hex) == [t |-> "ObjectId", hex |-> hex]
DateUTC(y, m, d) == [t |-> "Date", y |-> y, m |-> m, d |-> d]
Range(gte, lt) == [t |-> "object", gte |-> gte, lt |-> lt]

\* The strings of the model and what the decoder's tests say of each.
HexString == "507f1f77bcf86cd799439011"
DateString == "2024-03-15"
QuoteString == "O'Brien"
PlainString == "alice"

\* /^[a-fA-F0-9]{24}$/.test(value) && mongoose.isValidObjectId(value)
IsObjectIdString(s) == s = HexString

\* typeof value === 'string' && !isNaN(new Date(value).getTime())
\* the calendar dates of the model: mid-month, month ends, a leap day, a year end
DateStrings == {DateString, "2024-01-31", "2024-02-29", "2023-02-28", "2024-12-31"}

isValidDate(v) == v.t = "string" /\ v.s \in DateStrings

\* value.split('-').map(Number)
DateParts(s) ==
  CASE s = DateString -> <<2024, 3, 15>>
    [] s = "2024-01-31" -> <<2024, 1, 31>>
    [] s = "2024-02-29" -> <<2024, 2, 29>>
    [] s = "2023-02-28" -> <<2023, 2, 28>>
    [] s = "2024-12-31" -> <<2024, 12, 31>>
    [] OTHER -> <<0, 0, 0>>

\* the text holds a single quote, which replace(/'/g, '"') turns into a double one
HasSingleQuote(s) == s = QuoteString

IsLeap(y) == (y % 4 = 0 /\ y % 100 # 0) \/ y % 400 = 0

DaysInMonth(y, m) ==
  IF m = 2 THEN (IF IsLeap(y) THEN 29 ELSE 28)
  ELSE IF m \in {4, 6, 9, 11} THEN 30 ELSE 31

\* the mutant writes the month and the day down as they are given
DateUTCOfAsGiven(year, monthIndex, day) == DateUTC(year, monthIndex + 1, day)

\* new Date(Date.UTC(year, monthIndex, day)): monthIndex is 0-based and may be
\* 12, day may be one past the end of the month; both roll over.
DateUTCOf(year, monthIndex, day) ==
  LET y1 == IF monthIndex >= 12 THEN year + 1 ELSE year
      m1 == IF monthIndex >= 12 THEN monthIndex - 12 + 1 ELSE monthIndex + 1
  IN IF day > DaysInMonth(y1, m1)
     THEN (IF m1 = 12 THEN DateUTC(y1 + 1, 1, day - DaysInMonth(y1, m1))
           ELSE DateUTC(y1, m1 + 1, day - DaysInMonth(y1, m1)))
     ELSE DateUTC(y1, m1, day)

(***************************************************************************)
(* Values thrown by the decoders and the repository.  Every caught value   *)
(* has the same fields; "absent" and Undefined stand for a missing one.    *)
(***************************************************************************)
Msg(s, args) == [t |-> "string", s |-> s, args |-> args]
NoMsg == [t |-> "undefined", s |-> "", args |-> <<>>]
NumberMsg == [t |-> "number", s |-> "", args |-> <<>>]
ArrayMsg(items) == [t |-> "array", s |-> "", args |-> items]

\* a plain object {} with no property of its own.  typeOf is typeof of the
\* value ("null" for null); lib and ctor name the class it is an instance
\* of; code holds a number in decimal ("11000") or a string ("ENOENT");
\* status, respStatus and httpStatus are 0 when there is none.
PlainObject ==
  [typeOf |-> "object", lib |-> "none", ctor |-> "Object", isError |-> FALSE,
   name |-> "absent", code |-> "absent", message |-> NoMsg, status |-> 0,
   hasKeyValue |-> FALSE, keyValue |-> <<>>, axios |-> "none", respStatus |-> 0,
   respMessage |-> NoMsg, details |-> "absent", detailMessages |-> <<>>,
   errors |-> <<>>, httpStatus |-> 0, kind |-> "absent", path |-> "absent"]

Caught(ctor, isError, name, code, message, status) ==
  [PlainObject EXCEPT !.ctor = ctor, !.isError = isError, !.name = name,
                      !.code = code, !.message = message, !.status = status]

\* throw { status: 400, message: 'Invalid filter format' }
InvalidFilterFormat ==
  Caught("Object", FALSE, "absent", "absent", Msg("Invalid filter format", <<>>), 400)

\* throw { status: 400, message: 'Bad Sort Format' }
InvalidSortFormat ==
  Caught("Object", FALSE, "absent", "absent", Msg("Bad Sort Format", <<>>), 400)

\* new BadRequestException(message)
BadRequestException(message) ==
  [Caught("BadRequestException", TRUE, "BadRequestException", "absent", message, 400)
     EXCEPT !.httpStatus = 400, !.lib = "nest"]

(***************************************************************************)
(* Filter strings.  A filter string is absent, not JSON at all, the JSON   *)
(* literal null, or a JSON object with the optional keys `and` and `or`.   *)
(* A group is absent, one mapping (form "map": items holds the one mapping)*)
(* or a sequence of mappings (form "seq").  A mapping is the sequence of   *)
(* its entries, in key order; an entry is the key field__suffix and its    *)
(* value (suffix "none": the key is the bare field name).                  *)
(***************************************************************************)
AbsentGroup == [form |-> "absent", items |-> <<>>]
MapGroup(entries) == [form |-> "map", items |-> <<entries>>]
SeqGroup(items) == [form |-> "seq", items |-> items]
Entry(field, suffix, value) == [field |-> field, suffix |-> suffix, value |-> value]

AbsentFilter == [text |-> "absent", and |-> AbsentGroup, or |-> AbsentGroup]
MalformedFilter == [text |-> "malformed", and |-> AbsentGroup, or |-> AbsentGroup]
NullFilter == [text |-> "null", and |-> AbsentGroup, or |-> AbsentGroup]
JsonFilter(a, o) == [text |-> "json", and |-> a, or |-> o]

RECURSIVE Flatten(_)
Flatten(seqs) ==
  IF seqs = <<>> THEN <<>> ELSE Head(seqs) \o Flatten(Tail(seqs))

\* the entries of a group, in the order the decoder walks them
GroupEntries(group) == Flatten(group.items)

RECURSIVE ValueHasQuote(_)
ValueHasQuote(v) ==
  CASE v.t = "string" -> HasSingleQuote(v.s)
    [] v.t = "array" -> \E i \in 1..Len(v.items) : ValueHasQuote(v.items[i])
    [] OTHER -> FALSE

\* JSON.parse(filters.replace(/'/g, '"')) throws
JsonParseThrows(filters) ==
  \/ filters.text = "malformed"
  \/ /\ filters.text = "json"
     /\ \E e \in {(GroupEntries(filters.and) \o GroupEntries(filters.or))[i] :
                    i \in 1..Len(GroupEntries(filters.and) \o GroupEntries(filters.or))} :
          ValueHasQuote(e.value)

(***************************************************************************)
(* filterParamsDecoder.                                                    *)
(***************************************************************************)
\* a step of the decoder either yields a value or throws (a TypeError, a
\* SyntaxError), which the decoder's catch turns into InvalidFilterFormat
Ok(v) == [threw |-> FALSE, v |-> v]
Threw == [threw |-> TRUE, v |-> Undefined]

parseValue(field, value, operator) ==
  IF value.t = "string" /\ IsObjectIdString(value.s) THEN ObjectId(value.s)
  ELSE IF isValidDate(value)
  THEN LET year == DateParts(value.s)[1]
           month == DateParts(value.s)[2]
           day == DateParts(value.s)[3]
       IN IF operator = "day"
          THEN Range(DateUTCOf(year, month - 1, day), DateUTCOf(year, month - 1, day + 1))
          ELSE IF operator = "month"
          THEN Range(DateUTCOf(year, month - 1, 1), DateUTCOf(year, month, 1))
          ELSE DateUTCOf(year, month - 1, day)
  ELSE value

\* const [field, op = 'eq'] = rawKey.split('__')
SplitOp(entry) == IF entry.suffix = "none" THEN "eq" ELSE entry.suffix

\* parsed.$gte / parsed.$lt: a TypeError on null, the bound of a range, and
\* undefined on every other value
PropThrows(parsed) == parsed.t \in {"null", "undefined"}
PropGte(parsed) == IF parsed.t = "object" THEN parsed.gte ELSE Undefined
PropLt(parsed) == IF parsed.t = "object" THEN parsed.lt ELSE Undefined

\* new RegExp(value, 'i') throws a SyntaxError on an invalid pattern
InvalidPattern == "("
RegExpThrows(value) == value.t = "string" /\ value.s = InvalidPattern

EmptyCondition == [field |-> "", op |-> "none", v |-> Undefined, lt |-> Undefined]
Condition(field, op, v) == [field |-> field, op |-> op, v |-> v, lt |-> Undefined]
RangeCondition(field, gte, lt) == [field |-> field, op |-> "$gte$lt", v |-> gte, lt |-> lt]

\* Array.isArray(value) ? value : [value], each member through parseValue(.., 'eq')
InValues(field, value) ==
  LET values == IF value.t = "array" THEN value.items ELSE <<value>>
  IN Arr([i \in 1..Len(values) |-> parseValue(field, values[i], "eq")])

\* the switch of buildGroup on one entry; inArray tells the sequence form
\* (lines 112-163) from the mapping form (lines 167-215)
EntryCondition(entry, inArray) ==
  LET field == entry.field
      op == SplitOp(entry)
      value == entry.value
      parsed == parseValue(field, value, op)
  IN CASE op = "eq" ->
            \* typeof parsed === 'object' && parsed.$gte
            IF parsed.t = "null" THEN Threw ELSE Ok(Condition(field, "$eq", parsed))
       [] op = "like" ->
            IF inArray THEN Ok(Condition(field, "$regex", value))
            ELSE IF RegExpThrows(value) THEN Threw
            ELSE Ok(Condition(field, "$regex", value))
       [] op = "in" -> Ok(Condition(field, "$in", InValues(field, value)))
       [] op = "gt" -> Ok(Condition(field, "$gt", parsed))
       [] op = "lt" -> Ok(Condition(field, "$lt", parsed))
       [] op = "gte" -> Ok(Condition(field, "$gte", parsed))
       [] op = "lte" -> Ok(Condition(field, "$lte", parsed))
       [] op = "ne" -> Ok(Condition(field, "$ne", parsed))
       [] op \in {"month", "day"} ->
            \* in the mapping form `month` has no break and falls into `day`,
            \* which assigns the same expression again
            IF PropThrows(parsed) THEN Threw
            ELSE Ok(RangeCondition(field, PropGte(parsed), PropLt(parsed)))
       [] OTHER -> Ok(EmptyCondition)

RECURSIVE BuildParts(_, _)
BuildParts(entries, inArray) ==
  IF entries = <<>> THEN Ok(<<>>)
  ELSE LET c == EntryCondition(Head(entries), inArray)
           rest == BuildParts(Tail(entries), inArray)
       IN IF c.threw \/ rest.threw THEN Threw ELSE Ok(<<c.v>> \o rest.v)

\* buildGroup(decoded.and || {})
buildGroup(group) == BuildParts(GroupEntries(group), group.form = "seq")

EmptyQuery == [hasAnd |-> FALSE, and |-> <<>>, hasOr |-> FALSE, or |-> <<>>]

\* the result: the query, or the value thrown by the catch
filterParamsDecoder(filters) ==
  IF filters.text = "absent" THEN [threw |-> FALSE, query |-> EmptyQuery]
  ELSE IF JsonParseThrows(filters) \/ filters.text = "null"
  THEN [threw |-> TRUE, exception |-> InvalidFilterFormat]
  ELSE LET andConditions == buildGroup(filters.and)
           orConditions == buildGroup(filters.or)
       IN IF andConditions.threw \/ orConditions.threw
          THEN [threw |-> TRUE, exception |-> InvalidFilterFormat]
          ELSE [threw |-> FALSE,
                query |-> [hasAnd |-> Len(andConditions.v) > 0, and |-> andConditions.v,
                           hasOr |-> Len(orConditions.v) > 0, or |-> orConditions.v]]

(***************************************************************************)
(* getNonFilterableFields.                                                 *)
(***************************************************************************)
RECURSIVE CheckFields(_, _)
\* the keys of the sub-filters of one connective that are not in `fields`
CheckFields(parts, fields) ==
  IF parts = <<>> THEN <<>>
  ELSE (IF Head(parts).op # "none" /\ Head(parts).field \notin fields
        THEN <<Head(parts).field>> ELSE <<>>) \o CheckFields(Tail(parts), fields)

nonFilterableFields(query, fields) ==
  (IF query.hasAnd THEN CheckFields(query.and, fields) ELSE <<>>)
    \o (IF query.hasOr THEN CheckFields(query.or, fields) ELSE <<>>)

\* the value thrown, or no throw (the function then returns null)
getNonFilterableFields(query, fields) ==
  LET found == nonFilterableFields(query, fields)
  IN IF Len(found) > 0
     THEN [threw |-> TRUE,
           exception |-> BadRequestException(
             IF Len(found) = 1
             THEN Msg("Bad Format:Field is not Filterable: ", found)
             ELSE Msg("Fields are not Filterable: ", found))]
     ELSE [threw |-> FALSE, exception |-> PlainObject]

(***************************************************************************)
(* sortParamsDecoder.  A sort string is not given (getAllData then takes   *)
(* '-createdAt'), empty, one token, a bracketed array literal of tokens,   *)
(* a bracketed text that is not JSON, or a bracketed array holding a       *)
(* number.  A token is its first character and the rest of its text.       *)
(***************************************************************************)
Token(first, rest) == [first |-> first, rest |-> rest]
SortNotGiven == [kind |-> "notGiven", tokens |-> <<>>]
SortEmpty == [kind |-> "empty", tokens |-> <<>>]
SortToken(tok) == [kind |-> "token", tokens |-> <<tok>>]
SortArray(toks) == [kind |-> "array", tokens |-> toks]
SortMalformed == [kind |-> "malformed", tokens |-> <<>>]
SortNumberItem == [kind |-> "numberItem", tokens |-> <<>>]

SortKeyOf(field, dir) == [field |-> field, dir |-> dir]

RECURSIVE SetKey(_, _)
\* sortFormat[fieldName] = sortOrder: a key already present keeps its place
SetKey(keys, k) ==
  IF keys = <<>> THEN <<k>>
  ELSE IF Head(keys).field = k.field THEN <<k>> \o Tail(keys)
  ELSE <<Head(keys)>> \o SetKey(Tail(keys), k)

RECURSIVE SortFormat(_)
SortFormat(tokens) ==
  IF tokens = <<>> THEN <<>>
  ELSE LET item == tokens[Len(tokens)]
           sortOrder == IF item.first = "+" THEN 1 ELSE 0 - 1
           fieldName == item.rest
       IN SetKey(SortFormat(SubSeq(tokens, 1, Len(tokens) - 1)),
                 SortKeyOf(fieldName, sortOrder))

\* defined = FALSE is the result undefined
sortParamsDecoder(sort) ==
  IF sort.kind \in {"empty", "notGiven"}
  THEN [threw |-> FALSE, defined |-> FALSE, keys |-> <<>>]
  ELSE IF sort.kind \in {"malformed", "numberItem"}
  THEN [threw |-> TRUE, defined |-> FALSE, keys |-> <<>>]
  ELSE [threw |-> FALSE, defined |-> TRUE, keys |-> SortFormat(sort.tokens)]

\* sortStr = '-createdAt' in the destructuring of getAllData
DefaultSortStr == SortToken(Token("-", "createdAt"))

(***************************************************************************)
(* queryToPagination and resultToPagination.  page and length are strings  *)
(* of decimal digits.                                                      *)
(***************************************************************************)
RECURSIVE parseInt(_)
parseInt(digits) ==
  IF Len(digits) = 1 THEN digits[1]
  ELSE 10 * parseInt(SubSeq(digits, 1, Len(digits) - 1)) + digits[Len(digits)]

\* the mutant skips the requested page too
queryToPaginationFromPage(page, length) ==
  LET pageNo == parseInt(page)
      pageSize == parseInt(length)
  IN [skip |-> pageNo * pageSize, limit |-> pageSize]

queryToPagination(page, length) ==
  LET pageNo == parseInt(page)
      pageSize == parseInt(length)
  IN [skip |-> (pageNo - 1) * pageSize, limit |-> pageSize]

DefaultPageSize == 10

CeilDiv(a, b) == (a + b - 1) \div b

\* the mutant numbers the pages from 0
resultToPaginationFromZero(totalItems, request) ==
  LET whole == IF request.limit = 0 THEN 0 ELSE request.skip \div request.limit
      rem == IF request.limit = 0 THEN 0 ELSE request.skip % request.limit
      pageSize == IF request.limit = 0 THEN DefaultPageSize ELSE request.limit
  IN [totalItems |-> totalItems,
      totalPages |-> CeilDiv(totalItems, pageSize),
      currentPage |-> IF whole = 0 /\ rem = 0 THEN 1 ELSE whole,
      currentPageRem |-> rem,
      currentPageFinite |-> request.limit # 0 \/ request.skip = 0,
      pageSize |-> pageSize]

\* currentPage = skip / limit + 1 || 1 is the number currentPage +
\* currentPageRem / limit; 0 / 0 is NaN, which || replaces by 1, as it does 0;
\* a skip other than 0 over the limit 0 is an infinity (currentPageFinite FALSE).
resultToPagination(totalItems, request) ==
  LET whole == IF request.limit = 0 THEN 0 ELSE request.skip \div request.limit + 1
      rem == IF request.limit = 0 THEN 0 ELSE request.skip % request.limit
      pageSize == IF request.limit = 0 THEN DefaultPageSize ELSE request.limit
  IN [totalItems |-> totalItems,
      totalPages |-> CeilDiv(totalItems, pageSize),
      currentPage |-> IF whole = 0 /\ rem = 0 THEN 1 ELSE whole,
      currentPageRem |-> rem,
      currentPageFinite |-> request.limit # 0 \/ request.skip = 0,
      pageSize |-> pageSize]

(***************************************************************************)
(* The storage collection.  store is the sequence of its documents in      *)
(* insertion order; a document's _id is its place in it, and documents are *)
(* created one after the other, so createdAt follows _id.  The schemas    *)
(* are declared with timestamps: true: updatedAt is "createdAt" (the same  *)
(* instant) until findByIdAndUpdate writes the document, and "later" from  *)
(* then on.  No value of a filter is cast.  isDeleted is "true", "false"   *)
(* or "absent"; a projection replaces a value by "omitted".                *)
(***************************************************************************)
Doc(id, amount, isDeleted) ==
  [_id |-> id, amount |-> amount, isDeleted |-> isDeleted, password |-> "hunter2",
   updatedAt |-> "createdAt"]

FieldValue(doc, field) ==
  CASE field = "amount" -> Num(doc.amount)
    [] field = "_id" -> Num(doc._id)
    [] field = "createdAt" -> Num(doc._id)
    [] field = "password" -> Str(doc.password)
    [] field = "isDeleted" ->
         IF doc.isDeleted = "absent" THEN Undefined ELSE Bool(doc.isDeleted = "true")
    [] OTHER -> Undefined

\* the query operators of the storage engine on one field of one document
ValueEquals(fv, v) ==
  IF v.t \in {"null", "undefined"} THEN fv.t \in {"null", "undefined"} ELSE fv = v

Compares(fv, v, op) ==
  /\ fv.t = "number" /\ v.t = "number"
  /\ CASE op = "$gt" -> fv.n > v.n
       [] op = "$lt" -> fv.n < v.n
       [] op = "$gte" -> fv.n >= v.n
       [] op = "$lte" -> fv.n <= v.n

MatchesCondition(doc, c) ==
  LET fv == FieldValue(doc, c.field)
  IN CASE c.op = "none" -> TRUE
       [] c.op = "$eq" -> ValueEquals(fv, c.v)
       [] c.op = "$ne" -> ~ValueEquals(fv, c.v)
       [] c.op = "$in" -> \E i \in 1..Len(c.v.items) : ValueEquals(fv, c.v.items[i])
       [] c.op = "$regex" -> fv.t = "string" /\ c.v.t = "string" /\ fv.s = c.v.s
       [] c.op \in {"$gt", "$lt", "$gte", "$lte"} -> Compares(fv, c.v, c.op)
       [] c.op = "$gte$lt" -> Compares(fv, c.v, "$gte") /\ Compares(fv, c.lt, "$lt")

\* a filter object: the connectives of a decoded query and top-level conditions
MatchesFilter(doc, filter) ==
  /\ filter.query.hasAnd =>
       \A i \in 1..Len(filter.query.and) : MatchesCondition(doc, filter.query.and[i])
  /\ filter.query.hasOr =>
       \E i \in 1..Len(filter.query.or) : MatchesCondition(doc, filter.query.or[i])
  /\ \A i \in 1..Len(filter.top) : MatchesCondition(doc, filter.top[i])

RECURSIVE Before(_, _, _)
\* a comes before b under the sort keys; documents that tie stay in natural order
Before(a, b, keys) ==
  IF keys = <<>> THEN a._id < b._id
  ELSE LET ka == FieldValue(a, Head(keys).field)
           kb == FieldValue(b, Head(keys).field)
       IN IF ka.t # "number" \/ kb.t # "number" \/ ka = kb
          THEN Before(a, b, Tail(keys))
          ELSE IF Head(keys).dir = 1 THEN ka.n < kb.n ELSE ka.n > kb.n

Matching(docs, filter) ==
  {docs[i] : i \in {j \in 1..Len(docs) : MatchesFilter(docs[j], filter)}}

Sorted(docSet, keys) ==
  [i \in 1..Cardinality(docSet) |->
     CHOOSE d \in docSet : Cardinality({e \in docSet : Before(e, d, keys)}) = i - 1]

Project(doc, excluded) ==
  [_id |-> doc._id,
   amount |-> doc.amount,
   isDeleted |-> IF "isDeleted" \in excluded THEN "omitted" ELSE doc.isDeleted,
   password |-> IF "password" \in excluded THEN "omitted" ELSE doc.password,
   updatedAt |-> doc.updatedAt]

ProjectAll(docs, excluded) == [i \in 1..Len(docs) |-> Project(docs[i], excluded)]

Min(a, b) == IF a < b THEN a ELSE b

\* skip(n) then limit(n) of a cursor: limit(0) is no limit
SkipLimit(docs, skip, limit) ==
  LET last == IF limit = 0 THEN Len(docs) ELSE Min(Len(docs), skip + limit)
  IN SubSeq(docs, skip + 1, last)

\* a failure of the storage engine: a MongoServerError
StorageError(text) ==
  [Caught("MongoServerError", TRUE, "MongoServerError", "absent", Msg(text, <<>>), 0)
     EXCEPT !.lib = "mongodb"]

(***************************************************************************)
(* BaseRepository (the first definition of the class).  Each operation is  *)
(* an operator from the collection and the arguments to what the call      *)
(* returns or throws; the writes also give the collection after the call.  *)
(* A plain-object argument (data, filter) is the sequence of its equality  *)
(* conditions; a projection is not given, or excludes a set of fields.     *)
(***************************************************************************)
NoProjection == [given |-> FALSE, excluded |-> {}]
Excluding(fields) == [given |-> TRUE, excluded |-> fields]

\* the data of an update: the fields it names, with their values
NoData == [fields |-> {}, amount |-> 1, isDeleted |-> "absent"]

NoPagination ==
  [totalItems |-> 0, totalPages |-> 0, currentPage |-> 0, currentPageRem |-> 0,
   currentPageFinite |-> TRUE, pageSize |-> 0]

ListParams(filter, sortStr, page, length, filterableFields, useAggregation, excludeFields) ==
  [filter |-> filter, sortStr |-> sortStr, page |-> page, length |-> length,
   filterableFields |-> filterableFields, useAggregation |-> useAggregation,
   excludeFields |-> excludeFields]

NoParams == ListParams(AbsentFilter, SortNotGiven, <<1>>, <<1>>, {}, FALSE, {})

\* what a call returned (threw = FALSE) or threw, with the call it answers
Returned(op, id, docs) ==
  [op |-> op, id |-> id, threw |-> FALSE, exception |-> PlainObject,
   docs |-> docs, hasPagination |-> FALSE, pagination |-> NoPagination,
   params |-> NoParams, projection |-> NoProjection,
   data |-> NoData]

Thrown(op, exception, params) ==
  [op |-> op, id |-> 0, threw |-> TRUE, exception |-> exception,
   docs |-> <<>>, hasPagination |-> FALSE, pagination |-> NoPagination,
   params |-> params, projection |-> NoProjection,
   data |-> NoData]

RECURSIVE Without(_, _)
Without(conds, field) ==
  IF conds = <<>> THEN <<>>
  ELSE (IF Head(conds).field = field THEN <<>> ELSE <<Head(conds)>>)
         \o Without(Tail(conds), field)

\* { ...data, isDeleted: false }
NotDeletedFilter(data) ==
  [query |-> EmptyQuery,
   top |-> Without(data, "isDeleted") \o <<Condition("isDeleted", "$eq", Bool(FALSE))>>]

NaturalOrder(docs, filter) == Sorted(Matching(docs, filter), <<>>)

\* .find({ ...data, isDeleted: false }).select(projection || '-password')
findAll(docs, data, projection) ==
  Returned("findAll", 0,
    ProjectAll(NaturalOrder(docs, NotDeletedFilter(data)),
               IF projection.given THEN projection.excluded ELSE {"password"}))

\* .select(projection ? { ...defaultExclusions, ...projection } : defaultExclusions)
find(docs, filter, projection) ==
  Returned("find", 0,
    ProjectAll(NaturalOrder(docs, NotDeletedFilter(filter)),
               {"password"} \cup projection.excluded))

\* the document with that _id, if there is one
ById(docs, id) == SelectSeq(docs, LAMBDA d : d._id = id)

\* this.model.findById(id).lean().exec()
findById(docs, id) == Returned("findById", id, ById(docs, id))

findOne(docs, data, projection) ==
  LET all == NaturalOrder(docs, NotDeletedFilter(data))
  IN Returned("findOne", 0,
       ProjectAll(IF all = <<>> THEN <<>> ELSE <<all[1]>>,
                  IF projection.given THEN projection.excluded ELSE {"password"}))

\* the second definition of the class: .find({ ...data, isDeleted: false }).exec()
\* and .findOne({ ...data, isDeleted: false }).lean().exec(), without select
findAllSecond(docs, data, projection) ==
  Returned("findAll", 0, NaturalOrder(docs, NotDeletedFilter(data)))

findOneSecond(docs, data, projection) ==
  LET all == NaturalOrder(docs, NotDeletedFilter(data))
  IN Returned("findOne", 0, IF all = <<>> THEN <<>> ELSE <<all[1]>>)

\* this.model.create(data)
CreateStore(docs, data) ==
  docs \o <<Doc(Len(docs) + 1, data.amount, data.isDeleted)>>

create(docs, data) == Returned("create", Len(docs) + 1, <<CreateStore(docs, data)[Len(docs) + 1]>>)

\* the mutant writes the flag the data carries
UpdateStoreAsGiven(docs, id, data) ==
  IF id \in 1..Len(docs)
  THEN [docs EXCEPT ![id] =
          [@ EXCEPT !.amount = IF "amount" \in data.fields THEN data.amount ELSE @,
                    !.isDeleted = IF "isDeleted" \in data.fields THEN data.isDeleted ELSE @,
                    !.updatedAt = "later"]]
  ELSE docs

\* findByIdAndUpdate(id, { ...data, isDeleted: false }, { new: true }): the
\* fields of the update are set on the document with that _id, if there is one
UpdateStore(docs, id, data) ==
  IF id \in 1..Len(docs)
  THEN [docs EXCEPT ![id] =
          [@ EXCEPT !.amount = IF "amount" \in data.fields THEN data.amount ELSE @,
                    !.isDeleted = "false",
                    !.updatedAt = "later"]]
  ELSE docs

update(docs, id, data) == Returned("update", id, ById(UpdateStore(docs, id, data), id))

\* findOneAndUpdate({ _id: id }, { ...data, isDeleted: false }, { new: true })
findAndUpdateOne(docs, id, data) ==
  Returned("findAndUpdateOne", id, ById(UpdateStore(docs, id, data), id))

\* a hard delete (deleteOne), which takes the document out of the collection
DeleteStoreRemoving(docs, id) == SelectSeq(docs, LAMBDA d : d._id # id)

\* findByIdAndUpdate(id, { isDeleted: true }, { new: true })
DeleteStore(docs, id) ==
  IF id \in 1..Len(docs)
  THEN [docs EXCEPT ![id] = [@ EXCEPT !.isDeleted = "true", !.updatedAt = "later"]]
  ELSE docs

delete(docs, id) == Returned("delete", id, ById(DeleteStore(docs, id), id))

(***************************************************************************)
(* getAllData.                                                             *)
(***************************************************************************)
DEFAULT_EXCLUDE_FIELDS == {"isDeleted", "__v"}

\* the decoded filter alone, without the clause on isDeleted
baseFilterAnyFlag(filters) == [query |-> filters, top |-> <<>>]

\* { ...filters, isDeleted: { $ne: true } }
baseFilter(filters) ==
  [query |-> filters, top |-> <<Condition("isDeleted", "$ne", Bool(TRUE))>>]

ListReturned(data, pagination, params) ==
  [op |-> "getAllData", id |-> 0, threw |-> FALSE, exception |-> PlainObject,
   docs |-> data, hasPagination |-> TRUE, pagination |-> pagination,
   params |-> params, projection |-> NoProjection,
   data |-> NoData]

\* the find path: find(baseFilter).sort(sort).skip(skip).limit(limit).select(..)
\* beside countDocuments(baseFilter).  The engine refuses a negative skip.
FindPath(docs, base, sort, request, excluded, params) ==
  IF request.skip < 0
  THEN Thrown("getAllData", StorageError("Skip value must be non-negative"), params)
  ELSE LET data == SkipLimit(Sorted(Matching(docs, base), sort.keys),
                             request.skip, request.limit)
           totalCount == Cardinality(Matching(docs, base))
       IN ListReturned(ProjectAll(data, excluded),
                       resultToPagination(totalCount, request), params)

\* the aggregation path: [{ $match: baseFilter }, { $facet: { data: [{ $sort:
\* sort || {} }, { $skip }, { $limit }, { $unset }], totalCount: [{ $count }] } }].
\* The engine refuses a $sort with no key, a negative $skip and a $limit that
\* is not positive.
AggregationPath(docs, base, sort, request, excluded, params) ==
  IF sort.keys = <<>>
  THEN Thrown("getAllData", StorageError("$sort stage must have at least one sort key"),
              params)
  ELSE IF request.skip < 0
  THEN Thrown("getAllData", StorageError("Argument to $skip cannot be negative"), params)
  ELSE IF request.limit <= 0
  THEN Thrown("getAllData", StorageError("the limit must be positive"), params)
  ELSE LET matched == Matching(docs, base)
           data == SubSeq(Sorted(matched, sort.keys), request.skip + 1,
                          Min(Cardinality(matched), request.skip + request.limit))
           totalCount == Cardinality(matched)
       IN ListReturned(ProjectAll(data, excluded),
                       resultToPagination(totalCount, request), params)

getAllDataWith(docs, params, filters, sort) ==
  LET request == queryToPagination(params.page, params.length)
      check == getNonFilterableFields(filters.query, params.filterableFields)
      mergedExcludeFields == DEFAULT_EXCLUDE_FIELDS \cup params.excludeFields
  IN IF filters.threw THEN Thrown("getAllData", filters.exception, params)
     ELSE IF sort.threw THEN Thrown("getAllData", InvalidSortFormat, params)
     ELSE IF check.threw THEN Thrown("getAllData", check.exception, params)
     ELSE IF params.useAggregation
     THEN AggregationPath(docs, baseFilter(filters.query), sort, request,
                          mergedExcludeFields, params)
     ELSE FindPath(docs, baseFilter(filters.query), sort, request,
                   mergedExcludeFields, params)

getAllData(docs, params) ==
  getAllDataWith(docs, params, filterParamsDecoder(params.filter),
                 sortParamsDecoder(IF params.sortStr.kind = "notGiven"
                                   THEN DefaultSortStr ELSE params.sortStr))

(***************************************************************************)
(* The find path of getAllData, query by query.  query.exec() and          *)
(* countQuery.exec() are both called to build the argument of Promise.all; *)
(* each settles on its own, in either order; the await resumes when both   *)
(* are fulfilled or when the first of them is rejected.                    *)
(***************************************************************************)
Pending == [state |-> "pending", docs |-> <<>>, n |-> 0, error |-> PlainObject]

Fulfilled(docs, n) == [state |-> "fulfilled", docs |-> docs, n |-> n, error |-> PlainObject]

Rejected(error) == [state |-> "rejected", docs |-> <<>>, n |-> 0, error |-> error]

StorageCall(kind, filter) == [kind |-> kind, filter |-> filter]

NoneInFlight ==
  [pc |-> "idle", params |-> NoParams, calls |-> <<>>, data |-> Pending,
   count |-> Pending, rejected |-> FALSE, reason |-> PlainObject, order |-> <<>>]

\* the decoders and the allow-list check of getAllData let the call through
Decodes(params) ==
  /\ ~filterParamsDecoder(params.filter).threw
  /\ ~sortParamsDecoder(IF params.sortStr.kind = "notGiven" THEN DefaultSortStr
                        ELSE params.sortStr).threw
  /\ ~getNonFilterableFields(filterParamsDecoder(params.filter).query,
                             params.filterableFields).threw

\* the two calls of the find path, on the base filter of the call
FindPathCalls(params) ==
  LET base == baseFilter(filterParamsDecoder(params.filter).query)
  IN <<StorageCall("find", base), StorageCall("countDocuments", base)>>

\* query.exec(): the page of the documents the filter of the call matches
ExecFind(docs, call, params) ==
  LET sort == sortParamsDecoder(
                IF params.sortStr.kind = "notGiven" THEN DefaultSortStr ELSE params.sortStr)
      request == queryToPagination(params.page, params.length)
  IN IF request.skip < 0
     THEN Rejected(StorageError("Skip value must be non-negative"))
     ELSE Fulfilled(ProjectAll(SkipLimit(Sorted(Matching(docs, call.filter), sort.keys),
                                         request.skip, request.limit),
                               DEFAULT_EXCLUDE_FIELDS \cup params.excludeFields), 0)

\* countQuery.exec()
ExecCount(docs, call) == Fulfilled(<<>>, Cardinality(Matching(docs, call.filter)))

\* one query settles: the first rejection is the one Promise.all rejects with
Settle(flight, which, outcome) ==
  [flight EXCEPT ![which] = outcome,
                 !.order = Append(@, which),
                 !.rejected = @ \/ outcome.state = "rejected",
                 !.reason = IF ~flight.rejected /\ outcome.state = "rejected"
                            THEN outcome.error ELSE @]

\* the mutant resumes as soon as the data query is fulfilled
PromiseAllDataOnly(flight) ==
  flight.rejected \/ flight.data.state = "fulfilled"

\* await Promise.all([query.exec(), countQuery.exec()]) resumes
PromiseAll(flight) ==
  flight.rejected \/ (flight.data.state = "fulfilled" /\ flight.count.state = "fulfilled")

(***************************************************************************)
(* AllExceptionsFilter.  A predicate of the chain is "true", "false" or    *)
(* "throw": reading .includes or .toLowerCase of a message that has none   *)
(* raises a TypeError inside the classifier.                               *)
(***************************************************************************)
\* String.prototype.includes on the message texts of the model
StrIncludes(text, needle) ==
  CASE needle = "mongoose" ->
         text = "E11000 duplicate key error collection: mongoose_db.users"
    [] needle = "timeout" -> text = "operation timeout"
    [] OTHER -> FALSE

\* text.toLowerCase().includes(needle)
LowerIncludes(text, needle) ==
  CASE needle = "permission" -> text = "Permission denied"
    [] needle = "rate limit" -> text = "Rate limit exceeded"
    [] OTHER -> FALSE

Truth(b) == IF b THEN "true" ELSE "false"

\* exception?.message?.includes(needle): an array has includes, a number has not
MessageIncludes(e, needle) ==
  CASE e.message.t \in {"undefined", "null"} -> "false"
    [] e.message.t = "string" -> Truth(StrIncludes(e.message.s, needle))
    [] e.message.t = "array" -> "false"
    [] OTHER -> "throw"

\* exception?.message?.toLowerCase().includes(needle)
MessageLowerIncludes(e, needle) ==
  CASE e.message.t \in {"undefined", "null"} -> "false"
    [] e.message.t = "string" -> Truth(LowerIncludes(e.message.s, needle))
    [] OTHER -> "throw"

InstanceOf(e, lib, ctors) == e.lib = lib /\ e.ctor \in ctors

\* exception instanceof HttpException
isHttpException(e) == Truth(e.lib = "nest")

isJWTError(e) ==
  Truth(\/ InstanceOf(e, "jsonwebtoken",
                      {"JsonWebTokenError", "TokenExpiredError", "NotBeforeError"})
        \/ e.name \in {"JsonWebTokenError", "TokenExpiredError", "NotBeforeError"})

standardMongooseErrors ==
  {"ValidationError", "CastError", "DocumentNotFoundError", "VersionError",
   "ParallelSaveError", "StrictModeError", "OverwriteModelError", "MissingSchemaError"}

connectionErrors ==
  {"DisconnectedError", "MongooseServerSelectionError", "MongoServerSelectionError",
   "MongoNetworkError", "MongoTimeoutError"}

\* exception?.constructor?.name?.includes('Mongoose')
CtorIncludesMongoose(e) == e.ctor \in {"MongooseError", "MongooseServerSelectionError"}

isMongooseError(e) ==
  IF \/ InstanceOf(e, "mongoose", standardMongooseErrors)
     \/ e.name \in standardMongooseErrors
     \/ e.name \in connectionErrors
     \/ CtorIncludesMongoose(e)
  THEN "true"
  ELSE MessageIncludes(e, "mongoose")

isMongoDuplicateKeyError(e) ==
  e.typeOf = "object" /\ e.code = "11000" /\ e.hasKeyValue

isMongoWriteConcernError(e) == e.name = "WriteConcernError" \/ e.code = "64"

isMongoTimeoutError(e) ==
  IF e.name = "MongoTimeoutError" \/ e.code = "50" THEN "true"
  ELSE MessageIncludes(e, "timeout")

isMongoNetworkError(e) ==
  e.name \in {"MongoNetworkError", "MongoNetworkTimeoutError"} \/ e.code = "89"

isMongoAuthError(e) == e.name = "MongoAuthenticationError" \/ e.code \in {"18", "13"}

isMongoDBDriverError(e) ==
  IF isMongoDuplicateKeyError(e) \/ isMongoWriteConcernError(e) THEN "true"
  ELSE IF isMongoTimeoutError(e) # "false" THEN isMongoTimeoutError(e)
  ELSE Truth(isMongoNetworkError(e) \/ isMongoAuthError(e))

\* axios is "flag" (isAxiosError === true), "shape" (config, request and
\* response are there) or "none"
isAxiosError(e) == Truth(e.axios \in {"flag", "shape"} \/ e.name = "AxiosError")

isValidationError(e) == Truth(e.name = "ValidationError" /\ e.details = "array")

isFileSystemError(e) == Truth(e.code \in {"ENOENT", "EACCES", "EMFILE", "ENOTDIR"})

isNetworkError(e) ==
  Truth(e.code \in {"ECONNREFUSED", "ETIMEDOUT", "ENOTFOUND", "ECONNRESET"})

isPermissionError(e) ==
  IF MessageLowerIncludes(e, "permission") # "false"
  THEN MessageLowerIncludes(e, "permission")
  ELSE Truth(e.code = "EPERM")

isRateLimitError(e) ==
  IF MessageLowerIncludes(e, "rate limit") # "false"
  THEN MessageLowerIncludes(e, "rate limit")
  ELSE Truth(e.status = 429)

\* exception instanceof Error
isNativeError(e) == Truth(e.isError)

\* the records the handlers return
ErrorInfo(status, message, type, code, details) ==
  [threw |-> FALSE, status |-> status, message |-> message, type |-> type,
   code |-> code, details |-> details]

\* the classifier itself raised a TypeError and returned no record
ClassifierThrew ==
  [threw |-> TRUE, status |-> 0, message |-> NoMsg, type |-> "TypeError",
   code |-> "absent", details |-> "absent"]

\* details: process.env.NODE_ENV === 'development' ? what : undefined
DevOnlyAnyEnv(env, what) == what

DevOnly(env, what) == IF env = "development" THEN what ELSE "undefined"

\* `HTTP_${status}` and `EXTERNAL_SERVICE_${status}`
StatusText(status) ==
  CASE status = 400 -> "400" [] status = 401 -> "401" [] status = 403 -> "403"
    [] status = 404 -> "404" [] status = 408 -> "408" [] status = 409 -> "409" [] status = 429 -> "429"
    [] status = 500 -> "500" [] status = 502 -> "502" [] status = 503 -> "503"
    [] OTHER -> "other"

handleHttpException(e) ==
  ErrorInfo(e.httpStatus, e.message, e.ctor, "HTTP_" \o StatusText(e.httpStatus), "absent")

handleJWTError(e) ==
  IF InstanceOf(e, "jsonwebtoken", {"TokenExpiredError"}) \/ e.name = "TokenExpiredError"
  THEN ErrorInfo(401, Msg("Token has expired", <<>>), "TokenExpiredError",
                 "TOKEN_EXPIRED", "absent")
  ELSE IF InstanceOf(e, "jsonwebtoken", {"NotBeforeError"}) \/ e.name = "NotBeforeError"
  THEN ErrorInfo(401, Msg("Token not active yet", <<>>), "TokenNotActiveError",
                 "TOKEN_NOT_ACTIVE", "absent")
  ELSE ErrorInfo(401, Msg("Invalid token", <<>>), "InvalidTokenError",
                 "INVALID_TOKEN", "absent")

\* one sentence for one field-level sub-error of a mongoose ValidationError
ValidationSentence(error) ==
  CASE error.kind = "required" -> Msg("%s is required", <<error.path>>)
    [] error.kind = "enum" -> Msg("%s must be one of: %s", <<error.path>>)
    [] error.kind = "minlength" -> Msg("%s must be at least %s characters long", <<error.path>>)
    [] error.kind = "maxlength" -> Msg("%s must not exceed %s characters", <<error.path>>)
    [] error.kind = "min" -> Msg("%s must be at least %s", <<error.path>>)
    [] error.kind = "max" -> Msg("%s must not exceed %s", <<error.path>>)
    [] error.kind = "unique" -> Msg("%s must be unique", <<error.path>>)
    [] OTHER -> Msg("Validation failed for %s", <<error.path>>)

IsA(e, ctor) == InstanceOf(e, "mongoose", {ctor}) \/ e.name = ctor

handleMongooseError(e, env) ==
  CASE IsA(e, "ValidationError") ->
         ErrorInfo(400,
                   IF Len(e.errors) > 0
                   THEN ArrayMsg([i \in 1..Len(e.errors) |-> ValidationSentence(e.errors[i])])
                   ELSE ArrayMsg(<<Msg("Validation failed", <<>>)>>),
                   "ValidationError", "VALIDATION_ERROR", DevOnly(env, "errors"))
    [] ~IsA(e, "ValidationError") /\ IsA(e, "CastError") ->
         IF e.kind = "ObjectId"
         THEN ErrorInfo(400, Msg("Invalid %s format", <<e.path>>), "CastError",
                        "INVALID_OBJECT_ID", "absent")
         ELSE ErrorInfo(400, Msg("Invalid %s: %s", <<e.path>>), "CastError",
                        "INVALID_FORMAT", "absent")
    [] OTHER ->
         IF IsA(e, "DocumentNotFoundError")
         THEN ErrorInfo(404, Msg("Document not found", <<>>), "DocumentNotFoundError",
                        "DOCUMENT_NOT_FOUND", "absent")
         ELSE IF IsA(e, "VersionError")
         THEN ErrorInfo(409, Msg("Document was modified by another process", <<>>),
                        "VersionError", "DOCUMENT_VERSION_CONFLICT", "absent")
         ELSE IF IsA(e, "ParallelSaveError")
         THEN ErrorInfo(409, Msg("Cannot save document multiple times in parallel", <<>>),
                        "ParallelSaveError", "PARALLEL_SAVE_ERROR", "absent")
         ELSE IF IsA(e, "StrictModeError")
         THEN ErrorInfo(400, Msg("Field '%s' is not defined in schema", <<e.path>>),
                        "StrictModeError", "FIELD_NOT_IN_SCHEMA", "absent")
         ELSE IF e.name = "DisconnectedError"
         THEN ErrorInfo(503, Msg("Database connection lost", <<>>), "DisconnectedError",
                        "DATABASE_DISCONNECTED", "absent")
         ELSE IF e.name \in {"MongooseServerSelectionError", "MongoServerSelectionError"}
         THEN ErrorInfo(503, Msg("Cannot connect to database server", <<>>),
                        "ServerSelectionError", "DATABASE_CONNECTION_FAILED", "absent")
         ELSE ErrorInfo(500, Msg("Database operation failed", <<>>), "MongooseError",
                        "DATABASE_ERROR", DevOnly(env, "message"))

handleMongoDBDriverError(e, env) ==
  IF isMongoDuplicateKeyError(e)
  THEN IF Len(e.keyValue) = 1
       THEN ErrorInfo(409, Msg("The %s \"%s\" is already in use", e.keyValue[1]),
                      "DuplicateKeyError", "DUPLICATE_KEY", "absent")
       ELSE ErrorInfo(409, Msg("Duplicate entry found", <<>>), "DuplicateKeyError",
                      "DUPLICATE_KEY", DevOnly(env, "keyValue"))
  ELSE IF isMongoWriteConcernError(e)
  THEN ErrorInfo(500, Msg("Write operation failed due to write concern", <<>>),
                 "WriteConcernError", "WRITE_CONCERN_ERROR", "absent")
  ELSE IF isMongoTimeoutError(e) = "true"
  THEN ErrorInfo(408, Msg("Database operation timed out", <<>>), "TimeoutError",
                 "DATABASE_TIMEOUT", "absent")
  ELSE IF isMongoNetworkError(e)
  THEN ErrorInfo(503, Msg("Database network error", <<>>), "NetworkError",
                 "DATABASE_NETWORK_ERROR", "absent")
  ELSE IF isMongoAuthError(e)
  THEN ErrorInfo(500, Msg("Database authentication failed", <<>>), "AuthenticationError",
                 "DATABASE_AUTH_ERROR", "absent")
  ELSE ErrorInfo(500, Msg("MongoDB driver error", <<>>), "MongoDriverError",
                 "MONGO_DRIVER_ERROR", "absent")

BAD_GATEWAY == 502

\* `message || fallback`: a message that is there and is not the empty string
Truthy(message) ==
  (message.t = "string" /\ message.s # "") \/ message.t \in {"array", "number"}

handleAxiosError(e) ==
  LET status == IF e.respStatus # 0 THEN e.respStatus ELSE BAD_GATEWAY
      message == IF Truthy(e.respMessage) THEN e.respMessage
                 ELSE IF Truthy(e.message) THEN e.message
                 ELSE Msg("External service error", <<>>)
  IN ErrorInfo(status, message, "ExternalServiceError",
               "EXTERNAL_SERVICE_" \o StatusText(status), "absent")

handleValidationError(e) ==
  ErrorInfo(400, ArrayMsg(e.detailMessages), "ValidationError", "VALIDATION_ERROR", "absent")

handleFileSystemError(e) ==
  CASE e.code = "ENOENT" ->
         ErrorInfo(404, Msg("File or directory not found", <<>>), "FileSystemError", e.code, "absent")
    [] e.code = "EACCES" ->
         ErrorInfo(403, Msg("Permission denied", <<>>), "FileSystemError", e.code, "absent")
    [] e.code = "EMFILE" ->
         ErrorInfo(500, Msg("Too many open files", <<>>), "FileSystemError", e.code, "absent")
    [] e.code = "ENOTDIR" ->
         ErrorInfo(400, Msg("Not a directory", <<>>), "FileSystemError", e.code, "absent")
    [] OTHER ->
         ErrorInfo(500, Msg("File system error", <<>>), "FileSystemError", e.code, "absent")

handleNetworkError(e) ==
  CASE e.code = "ECONNREFUSED" ->
         ErrorInfo(503, Msg("Connection refused", <<>>), "NetworkError", e.code, "absent")
    [] e.code = "ETIMEDOUT" ->
         ErrorInfo(408, Msg("Connection timeout", <<>>), "NetworkError", e.code, "absent")
    [] e.code = "ENOTFOUND" ->
         ErrorInfo(404, Msg("Host not found", <<>>), "NetworkError", e.code, "absent")
    [] e.code = "ECONNRESET" ->
         ErrorInfo(502, Msg("Connection reset", <<>>), "NetworkError", e.code, "absent")
    [] OTHER ->
         ErrorInfo(502, Msg("Network error", <<>>), "NetworkError", e.code, "absent")

handlePermissionError(e) ==
  ErrorInfo(403, Msg("Insufficient permissions", <<>>), "PermissionError",
            "PERMISSION_DENIED", "absent")

handleRateLimitError(e) ==
  ErrorInfo(429, Msg("Rate limit exceeded", <<>>), "RateLimitError",
            "RATE_LIMIT_EXCEEDED", "absent")

handleNativeError(e, env) ==
  CASE e.ctor = "TypeError" ->
         ErrorInfo(400, Msg("Type error occurred", <<>>), e.ctor, "NATIVE_ERROR",
                   DevOnly(env, "stack"))
    [] e.ctor = "ReferenceError" ->
         ErrorInfo(500, Msg("Reference error occurred", <<>>), e.ctor, "NATIVE_ERROR",
                   DevOnly(env, "stack"))
    [] e.ctor = "SyntaxError" ->
         ErrorInfo(400, Msg("Syntax error in request", <<>>), e.ctor, "NATIVE_ERROR",
                   DevOnly(env, "stack"))
    [] e.ctor = "RangeError" ->
         ErrorInfo(400, Msg("Value out of range", <<>>), e.ctor, "NATIVE_ERROR",
                   DevOnly(env, "stack"))
    [] OTHER ->
         ErrorInfo(500,
                   IF Truthy(e.message) THEN e.message
                   ELSE Msg("Internal server error", <<>>),
                   e.ctor, "NATIVE_ERROR", DevOnly(env, "stack"))

UnknownError(env) ==
  ErrorInfo(500, Msg("An unexpected error occurred", <<>>), "UnknownError",
            "UNKNOWN_ERROR", DevOnly(env, "exception"))

formatException(e, env) ==
  IF isHttpException(e) = "true" THEN handleHttpException(e)
  ELSE IF isJWTError(e) = "true" THEN handleJWTError(e)
  ELSE IF isMongooseError(e) = "throw" THEN ClassifierThrew
  ELSE IF isMongooseError(e) = "true" THEN handleMongooseError(e, env)
  ELSE IF isMongoDBDriverError(e) = "throw" THEN ClassifierThrew
  ELSE IF isMongoDBDriverError(e) = "true" THEN handleMongoDBDriverError(e, env)
  ELSE IF isAxiosError(e) = "true" THEN handleAxiosError(e)
  ELSE IF isValidationError(e) = "true" THEN handleValidationError(e)
  ELSE IF isFileSystemError(e) = "true" THEN handleFileSystemError(e)
  ELSE IF isNetworkError(e) = "true" THEN handleNetworkError(e)
  ELSE IF isPermissionError(e) = "throw" THEN ClassifierThrew
  ELSE IF isPermissionError(e) = "true" THEN handlePermissionError(e)
  ELSE IF isRateLimitError(e) = "throw" THEN ClassifierThrew
  ELSE IF isRateLimitError(e) = "true" THEN handleRateLimitError(e)
  ELSE IF isNativeError(e) = "true" THEN handleNativeError(e, env)
  ELSE UnknownError(env)

\* a request body: a value that is no object (t "undefined", "string"), or
\* an object, a sequence of fields; a field name is a sequence of characters
BodyValue(t, text, fields) == [t |-> t, s |-> text, fields |-> fields]

BodyString(text) == BodyValue("string", text, <<>>)

BodyObject(fields) == BodyValue("object", "", fields)

Field(name, value) == [name |-> name, value |-> value]

Redacted == BodyString("[REDACTED]")

UpperCase == <<"A", "B", "C", "D", "E", "F", "G", "H", "I", "J", "K", "L", "M",
               "N", "O", "P", "Q", "R", "S", "T", "U", "V", "W", "X", "Y", "Z">>

LowerCase == <<"a", "b", "c", "d", "e", "f", "g", "h", "i", "j", "k", "l", "m",
               "n", "o", "p", "q", "r", "s", "t", "u", "v", "w", "x", "y", "z">>

\* key.toLowerCase()
toLowerCase(key) ==
  [i \in DOMAIN key |->
     IF \E k \in DOMAIN UpperCase : UpperCase[k] = key[i]
     THEN LowerCase[CHOOSE k \in DOMAIN UpperCase : UpperCase[k] = key[i]]
     ELSE key[i]]

\* key.includes(field)
includes(key, field) ==
  \E i \in 1..(Len(key) - Len(field) + 1) : SubSeq(key, i, i + Len(field) - 1) = field

sensitiveFields ==
  {<<"p", "a", "s", "s", "w", "o", "r", "d">>, <<"t", "o", "k", "e", "n">>,
   <<"s", "e", "c", "r", "e", "t">>, <<"k", "e", "y">>, <<"a", "u", "t", "h">>,
   <<"a", "u", "t", "h", "o", "r", "i", "z", "a", "t", "i", "o", "n">>}

IsSensitive(key) == \E field \in sensitiveFields : includes(toLowerCase(key), field)

\* sanitizeRequestBody(body): a copy of the body with the values of its own
\* sensitive keys replaced
sanitizeRequestBody(body) ==
  IF body.t # "object" THEN body
  ELSE [body EXCEPT !.fields =
          [i \in DOMAIN body.fields |->
             IF IsSensitive(body.fields[i].name)
             THEN Field(body.fields[i].name, Redacted)
             ELSE body.fields[i]]]

NoRequest == [body |-> BodyValue("undefined", "", <<>>)]

NoLog == [written |-> FALSE, error |-> "", message |-> NoMsg, body |-> NoRequest.body]

\* the entry catch hands to logger.error; none when formatException raised
logged(e, env, body) ==
  LET errorInfo == formatException(e, env)
  IN IF errorInfo.threw THEN NoLog
     ELSE [written |-> TRUE, error |-> errorInfo.type, message |-> errorInfo.message,
           body |-> sanitizeRequestBody(body)]

\* catch(exception, host): what response.status(..).send(..) is given (the
\* status, the error of the body, and the record formatException returned),
\* or nothing when formatException raised
NoResponse ==
  [sent |-> FALSE, crashed |-> FALSE, status |-> 0, type |-> "", message |-> NoMsg,
   code |-> "absent", hasDetails |-> FALSE, details |-> "absent",
   errorInfo |-> ClassifierThrew]

catch(e, env) ==
  LET errorInfo == formatException(e, env)
      withDetails == env = "development" /\ errorInfo.details \notin {"absent", "undefined"}
  IN IF errorInfo.threw
     THEN [NoResponse EXCEPT !.crashed = TRUE]
     ELSE [sent |-> TRUE, crashed |-> FALSE, status |-> errorInfo.status,
           type |-> errorInfo.type, message |-> errorInfo.message,
           code |-> errorInfo.code, hasDetails |-> withDetails,
           details |-> IF withDetails THEN errorInfo.details ELSE "absent",
           errorInfo |-> errorInfo]

(***************************************************************************)
(* The state machine.  store is the collection, ret what the call being    *)
(* served returned or threw (op "none": no call is being served), response *)
(* what the exception filter sent for it, nodeEnv process.env.NODE_ENV.    *)
(* A request runs to completion before the next one starts.                *)
(***************************************************************************)
None == Returned("none", 0, <<>>)

NodeEnvs == {"development", "production"}

Amounts == {1, 2}
Flags == {"absent", "false", "true"}
Ids == 1..(MaxRecords + 1)

CreateData == [amount : Amounts, isDeleted : Flags]

UpdateData ==
  {[fields |-> {"amount"}, amount |-> a, isDeleted |-> "absent"] : a \in Amounts}
    \cup {[fields |-> {"isDeleted"}, amount |-> 1, isDeleted |-> "true"]}

LookupData ==
  {<<>>, <<Condition("amount", "$eq", Num(1))>>,
   <<Condition("isDeleted", "$eq", Bool(TRUE))>>}

Projections == {NoProjection, Excluding({"isDeleted"})}

DigitStrings == {<<d>> : d \in 0..MaxDigit}

\* the filter strings of the list requests of Spec
ListFilters ==
  {AbsentFilter, MalformedFilter,
   JsonFilter(MapGroup(<<Entry("isDeleted", "none", Bool(TRUE))>>), AbsentGroup),
   JsonFilter(AbsentGroup,
              SeqGroup(<<<<Entry("amount", "gte", Num(2))>>,
                         <<Entry("isDeleted", "ne", Bool(FALSE))>>>>)),
   JsonFilter(MapGroup(<<Entry("secret", "regex", Str(PlainString))>>), AbsentGroup)}

ListSorts == {SortEmpty, SortToken(Token("+", "amount")), SortMalformed}

\* every filter under the default sort, and every sort without a filter
ListRequests ==
  {ListParams(f, SortNotGiven, p, l, {"amount", "isDeleted"}, agg, {}) :
     f \in ListFilters, p \in DigitStrings, l \in DigitStrings, agg \in BOOLEAN}
  \cup
  {ListParams(AbsentFilter, s, p, l, {"amount", "isDeleted"}, agg, {}) :
     s \in ListSorts, p \in DigitStrings, l \in DigitStrings, agg \in BOOLEAN}

Idle == ret.op = "none"

\* the requests a client can start now: none while a call is being served
WhenIdle(requests) == IF Idle THEN requests ELSE {}

Create(data) ==
  /\ Idle /\ Len(store) < MaxRecords
  /\ store' = CreateStore(store, data)
  /\ ret' = create(store, data)
  /\ UNCHANGED <<response, nodeEnv, httpRequest, log, inFlight>>

Update(id, data) ==
  /\ Idle
  /\ store' = UpdateStore(store, id, data)
  /\ ret' = [update(store, id, data) EXCEPT !.data = data]
  /\ UNCHANGED <<response, nodeEnv, httpRequest, log, inFlight>>

FindAndUpdateOne(id, data) ==
  /\ Idle
  /\ store' = UpdateStore(store, id, data)
  /\ ret' = [findAndUpdateOne(store, id, data) EXCEPT !.data = data]
  /\ UNCHANGED <<response, nodeEnv, httpRequest, log, inFlight>>

Delete(id) ==
  /\ Idle
  /\ store' = DeleteStore(store, id)
  /\ ret' = delete(store, id)
  /\ UNCHANGED <<response, nodeEnv, httpRequest, log, inFlight>>

FindAll(data, projection) ==
  /\ Idle
  /\ ret' = [findAll(store, data, projection) EXCEPT !.projection = projection]
  /\ UNCHANGED <<store, response, nodeEnv, httpRequest, log, inFlight>>

Find(filter, projection) ==
  /\ Idle
  /\ ret' = [find(store, filter, projection) EXCEPT !.projection = projection]
  /\ UNCHANGED <<store, response, nodeEnv, httpRequest, log, inFlight>>

FindById(id) ==
  /\ Idle
  /\ ret' = findById(store, id)
  /\ UNCHANGED <<store, response, nodeEnv, httpRequest, log, inFlight>>

FindOne(data, projection) ==
  /\ Idle
  /\ ret' = [findOne(store, data, projection) EXCEPT !.projection = projection]
  /\ UNCHANGED <<store, response, nodeEnv, httpRequest, log, inFlight>>

\* findAll and findOne as the second definition of the class has them
FindAllSecond(data, projection) ==
  /\ Idle
  /\ ret' = [findAllSecond(store, data, projection) EXCEPT !.projection = projection]
  /\ UNCHANGED <<store, response, nodeEnv, httpRequest, log, inFlight>>

FindOneSecond(data, projection) ==
  /\ Idle
  /\ ret' = [findOneSecond(store, data, projection) EXCEPT !.projection = projection]
  /\ UNCHANGED <<store, response, nodeEnv, httpRequest, log, inFlight>>

GetAllData(params) ==
  /\ Idle
  /\ ret' = getAllData(store, params)
  /\ UNCHANGED <<store, response, nodeEnv, httpRequest, log, inFlight>>

\* the value thrown by the call reaches the exception filter
Catch ==
  /\ ret.threw /\ ~response.sent /\ ~response.crashed
  /\ response' = catch(ret.exception, nodeEnv)
  /\ log' = logged(ret.exception, nodeEnv, httpRequest.body)
  /\ UNCHANGED <<store, ret, nodeEnv, httpRequest, inFlight>>

\* the request is over
Reply ==
  /\ ~Idle
  /\ ret.threw => (response.sent \/ response.crashed)
  /\ ret' = None
  /\ response' = NoResponse
  /\ httpRequest' = NoRequest
  /\ log' = NoLog
  /\ inFlight' = NoneInFlight
  /\ UNCHANGED <<store, nodeEnv>>

Init ==
  /\ store = <<>>
  /\ ret = None
  /\ response = NoResponse
  /\ nodeEnv = "production"
  /\ httpRequest = NoRequest
  /\ log = NoLog
  /\ inFlight = NoneInFlight

Next ==
  \/ \E data \in CreateData : Create(data)
  \/ \E id \in Ids, data \in UpdateData : Update(id, data)
  \/ \E id \in Ids, data \in UpdateData : FindAndUpdateOne(id, data)
  \/ \E id \in Ids : Delete(id)
  \/ \E data \in LookupData, projection \in Projections : FindAll(data, projection)
  \/ \E filter \in LookupData, projection \in Projections : Find(filter, projection)
  \/ \E id \in Ids : FindById(id)
  \/ \E data \in LookupData, projection \in Projections : FindOne(data, projection)
  \/ \E data \in LookupData, projection \in Projections : FindAllSecond(data, projection)
  \/ \E data \in LookupData, projection \in Projections : FindOneSecond(data, projection)
  \/ \E params \in WhenIdle(ListRequests) : GetAllData(params)
  \/ Catch
  \/ Reply

Spec == Init /\ [][Next]_vars

(***************************************************************************)
(* SpecDecoder: list requests over a wider set of filter strings, against  *)
(* a collection of one record.  A filter string is given by its entries in *)
(* order, the place where the `and` group ends and the `or` group starts,  *)
(* and the form of each group.                                             *)
(***************************************************************************)
InvalidOperator == "foo"

DecoderEntries ==
  {Entry("amount", "none", Num(1)),
   Entry("amount", "gte", Num(1)),
   Entry("amount", "none", Null),
   Entry("amount", "none", Str(QuoteString)),
   Entry("amount", "month", Str(DateString)),
   Entry("secret", "none", Num(1)),
   Entry("secret", InvalidOperator, Num(1)),
   Entry("secret", "like", Str(InvalidPattern)),
   Entry("other", "in", Num(1))}

EntryLists == UNION {[1..n -> DecoderEntries] : n \in 0..MaxEntries}

\* the keys of one JSON object are distinct
DistinctKeys(entries) ==
  \A i, j \in 1..Len(entries) :
    (entries[i].field = entries[j].field /\ entries[i].suffix = entries[j].suffix) => i = j

\* a group in the mapping form (absent when it has no entry) or as a sequence
\* of mappings of one entry each
GroupOf(entries, form) ==
  IF form = "seq" THEN SeqGroup([i \in 1..Len(entries) |-> <<entries[i]>>])
  ELSE IF entries = <<>> THEN AbsentGroup
  ELSE MapGroup(entries)

DecoderFilters ==
  {JsonFilter(GroupOf(SubSeq(x.list, 1, x.cut), x.andForm),
              GroupOf(SubSeq(x.list, x.cut + 1, Len(x.list)), x.orForm)) :
     x \in {y \in [list : EntryLists, cut : 0..MaxEntries,
                   andForm : {"map", "seq"}, orForm : {"map", "seq"}] :
              /\ y.cut <= Len(y.list)
              /\ y.andForm = "map" => DistinctKeys(SubSeq(y.list, 1, y.cut))
              /\ y.orForm = "map" => DistinctKeys(SubSeq(y.list, y.cut + 1, Len(y.list)))}}

AllowLists == {{"amount"}, {"amount", "secret"}}

\* sort tokens: signed, and without a sign ('amount', 'createdAt')
SortTokens ==
  {Token("+", "amount"), Token("-", "amount"), Token("a", "mount"),
   Token("-", "createdAt"), Token("c", "reatedAt")}

\* the text of a token after its sign
TokenField(tok) == IF tok.first \in {"+", "-"} THEN tok.rest ELSE tok.first \o tok.rest

\* one token, or an array literal of two tokens on different fields
SortStrings ==
  {SortEmpty} \cup {SortToken(tok) : tok \in SortTokens}
    \cup {SortArray(pair) : pair \in
            {toks \in SortTokens \X SortTokens : TokenField(toks[1]) # TokenField(toks[2])}}

\* createdAt__day and createdAt__month on the dates of the model
DateEntries == {Entry("createdAt", op, Str(d)) : op \in {"day", "month"}, d \in DateStrings}

\* one entry, or a day entry after a month entry, in either form of the group
DateFilters ==
  {JsonFilter(GroupOf(<<e>>, form), AbsentGroup) :
     e \in DateEntries, form \in {"map", "seq"}}
  \cup
  {JsonFilter(GroupOf(<<Entry("createdAt", "month", Str(d)), Entry("createdAt", "day", Str(d))>>,
                      form), AbsentGroup) :
     d \in DateStrings, form \in {"map", "seq"}}

DecoderRequests ==
  {ListParams(f, SortNotGiven, <<1>>, <<1>>, allow, FALSE, {}) :
     f \in DecoderFilters, allow \in AllowLists}
  \cup
  {ListParams(AbsentFilter, s, <<1>>, <<1>>, {"amount"}, agg, {}) :
     s \in SortStrings, agg \in BOOLEAN}
  \cup
  {ListParams(f, SortNotGiven, <<1>>, <<1>>, {"createdAt"}, FALSE, {}) : f \in DateFilters}

InitDecoder ==
  /\ store = <<Doc(1, 1, "false")>>
  /\ ret = None
  /\ response = NoResponse
  /\ nodeEnv = "production"
  /\ httpRequest = NoRequest
  /\ log = NoLog
  /\ inFlight = NoneInFlight

NextDecoder ==
  \/ \E params \in WhenIdle(DecoderRequests) : GetAllData(params)
  \/ Catch
  \/ Reply

SpecDecoder == InitDecoder /\ [][NextDecoder]_vars

(***************************************************************************)
(* SpecClassifier: a handler throws any of a set of values, and the        *)
(* exception filter classifies it, under either NODE_ENV.                  *)
(***************************************************************************)
\* the classes of the caught values: constructor, library, instanceof Error
Classes ==
  {<<"Object", "none", FALSE>>, <<"Error", "none", TRUE>>,
   <<"TypeError", "none", TRUE>>, <<"MongoServerError", "mongodb", TRUE>>,
   <<"ValidationError", "mongoose", TRUE>>,
   <<"TokenExpiredError", "jsonwebtoken", TRUE>>,
   <<"BadRequestException", "nest", TRUE>>}

Names ==
  {"absent", "MongoServerError", "ValidationError", "TokenExpiredError",
   "MongoNetworkError", "MongoTimeoutError", "AxiosError"}

Codes == {"absent", "11000", "ENOENT", "ECONNRESET", "EPERM"}

Messages ==
  {NoMsg, NumberMsg, ArrayMsg(<<Msg("email must be an email", <<>>)>>),
   Msg("E11000 duplicate key error collection: mongoose_db.users", <<>>),
   Msg("E11000 duplicate key error collection: app.users", <<>>),
   Msg("operation timeout", <<>>), Msg("Permission denied", <<>>),
   Msg("Rate limit exceeded", <<>>)}

\* keyValue: not there, {}, one pair, two pairs
KeyValues ==
  {[has |-> FALSE, pairs |-> <<>>], [has |-> TRUE, pairs |-> <<>>],
   [has |-> TRUE, pairs |-> <<<<"email", "a@b.com">>>>],
   [has |-> TRUE, pairs |-> <<<<"email", "a@b.com">>, <<"tenant", "t1">>>>]}

Statuses == {0, 429}

\* input-validation errors: the name ValidationError and a `details` array
\* whose items carry the messages
DetailLists ==
  {<<>>, <<Msg("email must be an email", <<>>)>>,
   <<Msg("email must be an email", <<>>), Msg("age must be a number", <<>>)>>}

InputValidationErrors ==
  {[Caught(ctor, ctor = "Error", "ValidationError", "absent", m, 0)
      EXCEPT !.details = "array", !.detailMessages = d] :
     ctor \in {"Error", "Object"}, d \in DetailLists,
     m \in {NoMsg, Msg("Validation failed", <<>>)}}

CaughtValues ==
  {[Caught(c[1], c[3], n, code, m, st)
      EXCEPT !.lib = c[2], !.hasKeyValue = kv.has, !.keyValue = kv.pairs,
             !.httpStatus = IF c[2] = "nest" THEN 400 ELSE 0] :
     c \in Classes, n \in Names, code \in Codes, m \in Messages,
     kv \in KeyValues, st \in Statuses}
  \cup InputValidationErrors
  \cup {InvalidFilterFormat, InvalidSortFormat,
        [PlainObject EXCEPT !.axios = "flag", !.respStatus = 404],
        [PlainObject EXCEPT !.axios = "shape"],
        [PlainObject EXCEPT !.typeOf = "string"],
        [PlainObject EXCEPT !.typeOf = "number"],
        [PlainObject EXCEPT !.typeOf = "boolean"],
        [PlainObject EXCEPT !.typeOf = "undefined"],
        [PlainObject EXCEPT !.typeOf = "null"]}

\* a route handler throws the value e
Throw(e) ==
  /\ Idle
  /\ ret' = Thrown("handler", e, NoParams)
  /\ UNCHANGED <<store, response, nodeEnv, httpRequest, log, inFlight>>

InitClassifier ==
  /\ store = <<>>
  /\ ret = None
  /\ response = NoResponse
  /\ nodeEnv \in NodeEnvs
  /\ httpRequest = NoRequest
  /\ log = NoLog
  /\ inFlight = NoneInFlight

NextClassifier ==
  \/ \E e \in WhenIdle(CaughtValues) : Throw(e)
  \/ Catch
  \/ Reply

SpecClassifier == InitClassifier /\ [][NextClassifier]_vars

(***************************************************************************)
(* SpecLogger: requests with a body whose handler throws; the exception    *)
(* filter logs a copy of the body and answers.                             *)
(***************************************************************************)
FieldNames ==
  {<<"p", "a", "s", "s", "w", "o", "r", "d">>, <<"a", "p", "i", "K", "e", "y">>,
   <<"A", "u", "t", "h", "o", "r", "i", "z", "a", "t", "i", "o", "n">>,
   <<"e", "m", "a", "i", "l">>, <<"u", "s", "e", "r">>}

\* an object inside the body: one field with a text as its value
NestedObjects == {BodyObject(<<Field(name, BodyString("hunter2"))>>) : name \in FieldNames}

FieldValues == {BodyString("hunter2")} \cup NestedObjects

BodyFields == {Field(name, value) : name \in FieldNames, value \in FieldValues}

FieldLists == UNION {[1..n -> BodyFields] : n \in 0..MaxFields}

\* the keys of an object are distinct
RequestBodies ==
  {BodyValue("undefined", "", <<>>), BodyString("hunter2")}
    \cup {BodyObject(fields) : fields \in
            {l \in FieldLists : \A i, j \in DOMAIN l : l[i].name = l[j].name => i = j}}

LoggerThrows == {InvalidFilterFormat, PlainObject, [PlainObject EXCEPT !.message = NumberMsg]}

\* a route handler is given the body and throws the value e
Serve(body, e) ==
  /\ Idle
  /\ httpRequest' = [body |-> body]
  /\ ret' = Thrown("handler", e, NoParams)
  /\ UNCHANGED <<store, response, nodeEnv, log, inFlight>>

InitLogger ==
  /\ store = <<>>
  /\ ret = None
  /\ response = NoResponse
  /\ nodeEnv \in NodeEnvs
  /\ httpRequest = NoRequest
  /\ log = NoLog
  /\ inFlight = NoneInFlight

NextLogger ==
  \/ \E body \in WhenIdle(RequestBodies), e \in LoggerThrows : Serve(body, e)
  \/ Catch
  \/ Reply

SpecLogger == InitLogger /\ [][NextLogger]_vars

(***************************************************************************)
(* SpecPagination: resultToPagination over counts and requests.            *)
(***************************************************************************)
Skips == {0, 5, 10, 20}

Limits == {0, 1, 10}

PaginationRequests == [skip : Skips, limit : Limits]

\* resultToPagination(totalItems, {request}); ret.params is the request
Paginate(totalItems, request) ==
  /\ Idle
  /\ ret' = [Returned("resultToPagination", 0, <<>>) EXCEPT
               !.hasPagination = TRUE,
               !.pagination = resultToPagination(totalItems, request),
               !.params = request]
  /\ UNCHANGED <<store, response, nodeEnv, httpRequest, log, inFlight>>

InitPagination ==
  /\ store = <<>>
  /\ ret = None
  /\ response = NoResponse
  /\ nodeEnv = "production"
  /\ httpRequest = NoRequest
  /\ log = NoLog
  /\ inFlight = NoneInFlight

NextPagination ==
  \/ \E totalItems \in 0..MaxItems, request \in PaginationRequests :
       Paginate(totalItems, request)
  \/ Reply

SpecPagination == InitPagination /\ [][NextPagination]_vars

(***************************************************************************)
(* SpecList: list calls on the find path over the collections of up to     *)
(* MaxRecords documents, the two queries settling in either order; the     *)
(* storage engine may fail either query.                                   *)
(***************************************************************************)
ListStores ==
  UNION {{[i \in 1..n |-> Doc(i, amount[i], flag[i])] :
            amount \in [1..n -> Amounts], flag \in [1..n -> {"false", "true"}]} :
         n \in 0..MaxRecords}

\* the requests of Spec that take the find path and pass the decoders
FindPathRequests == {params \in ListRequests : ~params.useAggregation /\ Decodes(params)}

\* a failure of the engine while it serves one of the two queries
EngineFailure(which) == StorageError("connection closed: " \o which)

\* a list request on a field outside its allow-list
OutsideRequests ==
  {ListParams(JsonFilter(MapGroup(<<Entry("secret", "none", Num(1))>>), AbsentGroup),
              SortNotGiven, <<1>>, <<1>>, {"amount"}, agg, {}) : agg \in BOOLEAN}

\* the requests a decoder or the allow-list check refuses, on either path
RefusedRequests == {params \in ListRequests \cup OutsideRequests : ~Decodes(params)}

\* the mutant builds the two queries before it decodes
CallsBeforeThrowEager(params) ==
  <<StorageCall("find", baseFilter(EmptyQuery)),
    StorageCall("countDocuments", baseFilter(EmptyQuery))>>

\* the storage calls of a getAllData that throws at one of its first four
\* statements: the queries are built further down
CallsBeforeThrow(params) == <<>>

\* getAllData throws out of filterParamsDecoder, sortParamsDecoder or
\* getNonFilterableFields
ListRefused(params) ==
  /\ Idle /\ inFlight.pc = "idle"
  /\ ret' = getAllData(store, params)
  /\ inFlight' = [NoneInFlight EXCEPT !.params = params,
                                      !.calls = CallsBeforeThrow(params)]
  /\ UNCHANGED <<store, response, nodeEnv, httpRequest, log>>

\* both queries are started, then getAllData awaits
IssueQueries(params) ==
  /\ Idle /\ inFlight.pc = "idle"
  /\ inFlight' = [NoneInFlight EXCEPT !.pc = "awaiting", !.params = params,
                                      !.calls = FindPathCalls(params)]
  /\ UNCHANGED <<store, ret, response, nodeEnv, httpRequest, log>>

DataSettles(fails) ==
  /\ inFlight.pc \in {"awaiting", "resumed"} /\ inFlight.data.state = "pending"
  /\ inFlight' = Settle(inFlight, "data",
                        IF fails THEN Rejected(EngineFailure("find"))
                        ELSE ExecFind(store, inFlight.calls[1], inFlight.params))
  /\ UNCHANGED <<store, ret, response, nodeEnv, httpRequest, log>>

CountSettles(fails) ==
  /\ inFlight.pc \in {"awaiting", "resumed"} /\ inFlight.count.state = "pending"
  /\ inFlight' = Settle(inFlight, "count",
                        IF fails THEN Rejected(EngineFailure("countDocuments"))
                        ELSE ExecCount(store, inFlight.calls[2]))
  /\ UNCHANGED <<store, ret, response, nodeEnv, httpRequest, log>>

\* getAllData resumes after the await: it throws what Promise.all rejected
\* with, or returns the data with the pagination of the count
Compose ==
  /\ inFlight.pc = "awaiting" /\ PromiseAll(inFlight)
  /\ inFlight' = [inFlight EXCEPT !.pc = "resumed"]
  /\ ret' = IF inFlight.rejected
            THEN Thrown("getAllData", inFlight.reason, inFlight.params)
            ELSE ListReturned(inFlight.data.docs,
                              resultToPagination(
                                inFlight.count.n,
                                queryToPagination(inFlight.params.page,
                                                  inFlight.params.length)),
                              inFlight.params)
  /\ UNCHANGED <<store, response, nodeEnv, httpRequest, log>>

InitList ==
  /\ store \in ListStores
  /\ ret = None
  /\ response = NoResponse
  /\ nodeEnv = "production"
  /\ httpRequest = NoRequest
  /\ log = NoLog
  /\ inFlight = NoneInFlight

NextList ==
  \/ \E params \in WhenIdle(FindPathRequests) : IssueQueries(params)
  \/ \E params \in WhenIdle(RefusedRequests) : ListRefused(params)
  \/ \E fails \in BOOLEAN : DataSettles(fails)
  \/ \E fails \in BOOLEAN : CountSettles(fails)
  \/ Compose
  \/ Catch
  \/ Reply

SpecList == InitList /\ [][NextList]_vars

(***************************************************************************)
(* Properties of the repository, under Spec.                               *)
(***************************************************************************)
StoredIds(docs) == {docs[i]._id : i \in 1..Len(docs)}

\* C2: no record is ever physically removed: every stored id stays stored
\* with its place, and a delete(id) call changes nothing but the isDeleted
\* flag of the record with that id, which it sets to true.
C2_SoftDeleteOnly ==
  [][/\ StoredIds(store) \subseteq StoredIds(store')
     /\ \A i \in 1..Len(store) : store'[i]._id = store[i]._id
     /\ (Idle /\ ret'.op = "delete") =>
          /\ Len(store') = Len(store)
          /\ \A i \in 1..Len(store) :
               IF store[i]._id = ret'.id
               THEN store'[i] = [store[i] EXCEPT !.isDeleted = "true"]
               ELSE store'[i] = store[i]]_vars

\* C2, amended: no record is ever physically removed, and a delete(id) call
\* changes nothing but the isDeleted flag of the record with that id, which
\* it sets to true, and the updatedAt timestamp of that record.
C2_SoftDeleteAndTimestamp ==
  [][/\ StoredIds(store) \subseteq StoredIds(store')
     /\ \A i \in 1..Len(store) : store'[i]._id = store[i]._id
     /\ (Idle /\ ret'.op = "delete") =>
          /\ Len(store') = Len(store)
          /\ \A i \in 1..Len(store) :
               IF store[i]._id = ret'.id
               THEN /\ store'[i].isDeleted = "true"
                    /\ [store'[i] EXCEPT !.updatedAt = "later"]
                         = [store[i] EXCEPT !.isDeleted = "true", !.updatedAt = "later"]
               ELSE store'[i] = store[i]]_vars

\* a delete has found its record among several
C2_Witness ==
  /\ ret.op = "delete" /\ ret.docs # <<>>
  /\ Len(store) >= 2
  /\ store[ret.id].isDeleted = "true"
  /\ store[ret.id].updatedAt = "later"
  /\ \E i \in 1..Len(store) : store[i].isDeleted # "true"

ReadOps == {"findOne", "find", "findAll", "findById"}

\* C3: findOne, find, findAll and findById never return a record whose
\* isDeleted flag is true.
C3_ReadsExcludeDeleted ==
  ret.op \in ReadOps =>
    \A i \in 1..Len(ret.docs) : store[ret.docs[i]._id].isDeleted # "true"

\* the records the decoded filter of the call selects, by the flag alone
\* and by the decoded filter alone
DecodedFilter(params) ==
  [query |-> filterParamsDecoder(params.filter).query, top |-> <<>>]

LiveMatches(docs, params) ==
  {i \in 1..Len(docs) :
     docs[i].isDeleted # "true" /\ MatchesFilter(docs[i], DecodedFilter(params))}

\* C4: in both paths of getAllData no record with isDeleted = true is in data
\* or counted in totalItems, and every record whose flag is false or absent
\* and that satisfies the decoded filter is counted.
C4_BasePredicate ==
  (ret.op = "getAllData" /\ ~ret.threw) =>
    /\ \A i \in 1..Len(ret.docs) : store[ret.docs[i]._id].isDeleted # "true"
    /\ \A i \in 1..Len(ret.docs) : ret.docs[i]._id \in LiveMatches(store, ret.params)
    /\ ret.pagination.totalItems = Cardinality(LiveMatches(store, ret.params))

\* an aggregation listing under a filter counts a record while another one is
\* soft-deleted and satisfies the same filter
C4_Witness ==
  /\ ret.op = "getAllData" /\ ~ret.threw /\ ret.params.useAggregation
  /\ ret.params.filter.text = "json"
  /\ ret.pagination.totalItems >= 1
  /\ \E i \in 1..Len(store) :
       store[i].isDeleted = "true" /\ MatchesFilter(store[i], DecodedFilter(ret.params))

\* C5: update(id, data) on a record with isDeleted = true leaves it with
\* isDeleted = true.
C5_UpdateKeepsDeleted ==
  [][(/\ Idle /\ ret'.op = "update"
      /\ ret'.id \in 1..Len(store)
      /\ store[ret'.id].isDeleted = "true") => store'[ret'.id].isDeleted = "true"]_vars

OtherPath(params) == [params EXCEPT !.useAggregation = ~@]

SameOutcome(a, b) ==
  /\ a.threw = b.threw
  /\ ~a.threw => (a.docs = b.docs /\ a.pagination = b.pagination)

\* C6: for the same records and the same filter, sort, page, length and
\* excluded fields, getAllData with useAggregation = false and with
\* useAggregation = true return the same data in the same order and the same
\* pagination.
C6_PathsAgree ==
  ret.op = "getAllData" =>
    SameOutcome(ret, getAllData(store, OtherPath(ret.params)))

\* C8: a filter string that cannot be parsed, or a malformed sort string,
\* makes getAllData throw a value of status 400, and the record classified
\* from it and the HTTP response have status 400.
C8_DecoderFailureIs400 ==
  (ret.op = "getAllData" /\ ret.threw
     /\ (filterParamsDecoder(ret.params.filter).threw
         \/ sortParamsDecoder(ret.params.sortStr).threw)) =>
    /\ ret.exception.status = 400
    /\ (response.sent \/ response.crashed) =>
         (response.sent /\ response.status = 400 /\ response.errorInfo.status = 400)

\* C18: a read that is given no projection returns no record with its
\* password, under either definition of the repository class.
C18_NoPasswordByDefault ==
  (ret.op \in ReadOps /\ ~ret.threw /\ ~ret.projection.given) =>
    \A i \in 1..Len(ret.docs) : ret.docs[i].password = "omitted"

UpdateOps == {"update", "findAndUpdateOne"}

\* the _ids of the records findAll returns for the empty filter
Visible(docs) ==
  {findAll(docs, <<>>, NoProjection).docs[i]._id :
     i \in 1..Len(findAll(docs, <<>>, NoProjection).docs)}

\* C20: an update or findAndUpdateOne that finds its record leaves it with
\* isDeleted = false, whatever the data says and whatever the flag was, and
\* the record is visible to reads.
C20_UpdateClearsFlag ==
  [][(/\ Idle /\ ret'.op \in UpdateOps
      /\ ret'.docs # <<>>) =>
       /\ store'[ret'.id].isDeleted = "false"
       /\ ret'.docs[1].isDeleted = "false"
       /\ ret'.id \in Visible(store')]_vars

\* findAndUpdateOne with isDeleted: true in its data has found its record
C20_Witness ==
  /\ ret.op = "findAndUpdateOne" /\ ret.docs # <<>>
  /\ "isDeleted" \in ret.data.fields /\ ret.data.isDeleted = "true"
  /\ store[ret.id].isDeleted = "false"

\* the records a storage query hands back when it is given skip and limit
Window(docs, skip, limit) == SubSeq(docs, skip + 1, Min(Len(docs), skip + limit))

\* the records the call selects, in the order of its sort
Ordered(docs, params) ==
  Sorted(Matching(docs, baseFilter(filterParamsDecoder(params.filter).query)),
         sortParamsDecoder(IF params.sortStr.kind = "notGiven"
                           THEN DefaultSortStr ELSE params.sortStr).keys)

\* C25: for a page >= 1 and a length >= 1 given as decimal digits, the list
\* returned has currentPage = page and pageSize = length, and its data is
\* what the storage query returns for skip = (page - 1) * length and limit =
\* length; the currentPage of every list returned is a positive integer.
C25_PageRoundTrip ==
  (ret.op = "getAllData" /\ ~ret.threw) =>
    /\ ret.hasPagination
    /\ ret.pagination.currentPageFinite
    /\ ret.pagination.currentPageRem = 0
    /\ ret.pagination.currentPage >= 1
    /\ (parseInt(ret.params.page) >= 1 /\ parseInt(ret.params.length) >= 1) =>
         /\ ret.pagination.currentPage = parseInt(ret.params.page)
         /\ ret.pagination.pageSize = parseInt(ret.params.length)
         /\ ret.docs =
              ProjectAll(Window(Ordered(store, ret.params),
                                (parseInt(ret.params.page) - 1) * parseInt(ret.params.length),
                                parseInt(ret.params.length)),
                         DEFAULT_EXCLUDE_FIELDS \cup ret.params.excludeFields)

\* the second page of one record each, out of two records
C25_Witness ==
  /\ ret.op = "getAllData" /\ ~ret.threw
  /\ parseInt(ret.params.page) = 2 /\ parseInt(ret.params.length) = 1
  /\ Len(ret.docs) = 1
  /\ ret.pagination.currentPage = 2 /\ ret.pagination.totalItems = 2

(***************************************************************************)
(* Properties of the decoders, under SpecDecoder.                          *)
(***************************************************************************)
FilterEntries(filter) == GroupEntries(filter.and) \o GroupEntries(filter.or)

\* the fields a filter string references that the allow-list does not hold
FieldsOutside(params) ==
  {FilterEntries(params.filter)[i].field : i \in 1..Len(FilterEntries(params.filter))}
    \ params.filterableFields

MessageNames(message, field) ==
  message.t = "string" /\ \E i \in 1..Len(message.args) : message.args[i] = field

\* C1: a list call whose filter string references, under any operator suffix,
\* a field outside the allow-list fails with a bad-request error whose
\* message names every such field, in the plural form when there are several;
\* it is never accepted.  Stated of the filter strings the decoder decodes.
C1_OutsideFieldsRejected ==
  (ret.op = "getAllData" /\ ret.params.filter.text = "json"
     /\ ~filterParamsDecoder(ret.params.filter).threw
     /\ FieldsOutside(ret.params) # {}) =>
    /\ ret.threw
    /\ ret.exception.ctor = "BadRequestException"
    /\ \A f \in FieldsOutside(ret.params) : MessageNames(ret.exception.message, f)
    /\ Cardinality(FieldsOutside(ret.params)) > 1 =>
         ret.exception.message.s = "Fields are not Filterable: "

\* the operators of the filter grammar; a bare field name means eq
Operators == {"eq", "like", "in", "gt", "lt", "gte", "lte", "ne", "month", "day"}

\* a filter string of the grammar: JSON text whose entries carry an operator
\* of the grammar
ValidFilter(filter) ==
  /\ filter.text = "json"
  /\ \A i \in 1..Len(FilterEntries(filter)) :
       SplitOp(FilterEntries(filter)[i]) \in Operators

\* one fragment per entry, on the field of the entry, in entry order
FragmentsOf(parts, entries) ==
  /\ Len(parts) = Len(entries)
  /\ \A i \in 1..Len(entries) :
       parts[i].op # "none" /\ parts[i].field = entries[i].field

\* C9: a valid filter string that references allow-listed fields only is
\* decoded and passes the allow-list check, and the predicate holds exactly
\* one fragment per entry: those of `and` under $and, those of `or` under $or,
\* in entry order, a connective being present only when its group has an entry.
C9_OneFragmentPerEntry ==
  (ret.op = "getAllData" /\ ValidFilter(ret.params.filter)
     /\ FieldsOutside(ret.params) = {}) =>
    LET decoded == filterParamsDecoder(ret.params.filter)
        andEntries == GroupEntries(ret.params.filter.and)
        orEntries == GroupEntries(ret.params.filter.or)
    IN /\ ~ret.threw
       /\ ~decoded.threw
       /\ decoded.query.hasAnd = (Len(andEntries) > 0)
       /\ decoded.query.hasOr = (Len(orEntries) > 0)
       /\ FragmentsOf(decoded.query.and, andEntries)
       /\ FragmentsOf(decoded.query.or, orEntries)

\* the entry the sort grammar gives a token: '+f' is f ascending, '-f' and a
\* bare 'f' are f descending
TokenEntry(tok) ==
  IF tok.first = "+" THEN SortKeyOf(tok.rest, 1)
  ELSE IF tok.first = "-" THEN SortKeyOf(tok.rest, 0 - 1)
  ELSE SortKeyOf(tok.first \o tok.rest, 0 - 1)

\* C15: sortParamsDecoder gives one entry per token, '+f' as f -> 1, '-f' as
\* f -> -1 and an unsigned 'f' as f -> -1 under the whole field name; an empty
\* string gives undefined.
C15_SortEntryPerToken ==
  (ret.op = "getAllData" /\ ret.params.sortStr.kind \in {"empty", "token", "array"}) =>
    LET decoded == sortParamsDecoder(ret.params.sortStr)
        tokens == ret.params.sortStr.tokens
    IN /\ ~decoded.threw
       /\ decoded.defined = (ret.params.sortStr.kind # "empty")
       /\ Len(decoded.keys) = Len(tokens)
       /\ \A i \in DOMAIN tokens : decoded.keys[i] = TokenEntry(tokens[i])

\* the calendar: the day after a date, and the first day of the month after
NextDay(y, m, d) ==
  IF d < DaysInMonth(y, m) THEN DateUTC(y, m, d + 1)
  ELSE IF m < 12 THEN DateUTC(y, m + 1, 1)
  ELSE DateUTC(y + 1, 1, 1)

FirstOfNextMonth(y, m) == IF m < 12 THEN DateUTC(y, m + 1, 1) ELSE DateUTC(y + 1, 1, 1)

IsDateEntry(entry) ==
  /\ entry.suffix \in {"day", "month"}
  /\ entry.value.t = "string" /\ entry.value.s \in DateStrings

\* the half-open range of a day or month entry, as a fragment on its field
RangeOf(entry) ==
  LET date == DateParts(entry.value.s)
  IN IF entry.suffix = "day"
     THEN RangeCondition(entry.field, DateUTC(date[1], date[2], date[3]),
                         NextDay(date[1], date[2], date[3]))
     ELSE RangeCondition(entry.field, DateUTC(date[1], date[2], 1),
                         FirstOfNextMonth(date[1], date[2]))

\* C17: a field__day entry on a date decodes to {$gte: the date, $lt: the
\* next day} and a field__month entry to {$gte: the first of the month, $lt:
\* the first of the next month}, at month ends and year ends too, in the
\* mapping form and in the sequence form of the group.
C17_DayMonthRanges ==
  LET entries == GroupEntries(ret.params.filter.and)
      decoded == filterParamsDecoder(ret.params.filter)
  IN (ret.op = "getAllData" /\ ret.params.filter.text = "json"
        /\ GroupEntries(ret.params.filter.or) = <<>>
        /\ entries # <<>> /\ \A i \in DOMAIN entries : IsDateEntry(entries[i])) =>
       /\ ~decoded.threw
       /\ Len(decoded.query.and) = Len(entries)
       /\ \A i \in DOMAIN entries : decoded.query.and[i] = RangeOf(entries[i])

\* a month entry on December and a day entry on 31 December, in the mapping form
C17_Witness ==
  /\ ret.op = "getAllData" /\ ~ret.threw
  /\ ret.params.filter.text = "json"
  /\ ret.params.filter.and.form = "map"
  /\ GroupEntries(ret.params.filter.and) =
       <<Entry("createdAt", "month", Str("2024-12-31")),
         Entry("createdAt", "day", Str("2024-12-31"))>>

\* the entry carries an operator of the grammar
KnownOperator(entry) == SplitOp(entry) \in Operators

\* the group, and the filter string, without the entries of unknown operators
StripGroup(group) ==
  [group EXCEPT !.items = [i \in DOMAIN group.items |->
                             SelectSeq(group.items[i], KnownOperator)]]

StripFilter(filter) ==
  [filter EXCEPT !.and = StripGroup(filter.and), !.or = StripGroup(filter.or)]

\* the records the list call reads under a decoded query
Selected(docs, query) == Matching(docs, baseFilter(query))

\* C21: an entry whose operator is outside the grammar does not make
\* decoding fail and adds no condition: the decoded predicate selects the
\* records that the filter without that entry selects, in `and` and in `or`.
C21_UnknownOperatorAddsNothing ==
  (ret.op = "getAllData" /\ ret.params.filter.text = "json"
     /\ (\E i \in 1..Len(FilterEntries(ret.params.filter)) :
           ~KnownOperator(FilterEntries(ret.params.filter)[i]))
     /\ ~filterParamsDecoder(StripFilter(ret.params.filter)).threw) =>
    /\ ~filterParamsDecoder(ret.params.filter).threw
    /\ Selected(store, filterParamsDecoder(ret.params.filter).query)
         = Selected(store, filterParamsDecoder(StripFilter(ret.params.filter)).query)

(***************************************************************************)
(* Properties of the exception filter, under SpecClassifier.               *)
(***************************************************************************)
Classified == response.sent \/ response.crashed

\* the predicates of the chain, from the highest priority to the lowest
Chain ==
  <<"http", "jwt", "mongoose", "driver", "axios", "validation", "fileSystem",
    "network", "permission", "rateLimit", "native">>

Satisfies(e, link) ==
  CASE link = "http" -> isHttpException(e) = "true"
    [] link = "jwt" -> isJWTError(e) = "true"
    [] link = "mongoose" -> isMongooseError(e) = "true"
    [] link = "driver" -> isMongoDBDriverError(e) = "true"
    [] link = "axios" -> isAxiosError(e) = "true"
    [] link = "validation" -> isValidationError(e) = "true"
    [] link = "fileSystem" -> isFileSystemError(e) = "true"
    [] link = "network" -> isNetworkError(e) = "true"
    [] link = "permission" -> isPermissionError(e) = "true"
    [] link = "rateLimit" -> isRateLimitError(e) = "true"
    [] link = "native" -> isNativeError(e) = "true"

HandlerOf(e, link, env) ==
  CASE link = "http" -> handleHttpException(e)
    [] link = "jwt" -> handleJWTError(e)
    [] link = "mongoose" -> handleMongooseError(e, env)
    [] link = "driver" -> handleMongoDBDriverError(e, env)
    [] link = "axios" -> handleAxiosError(e)
    [] link = "validation" -> handleValidationError(e)
    [] link = "fileSystem" -> handleFileSystemError(e)
    [] link = "network" -> handleNetworkError(e)
    [] link = "permission" -> handlePermissionError(e)
    [] link = "rateLimit" -> handleRateLimitError(e)
    [] link = "native" -> handleNativeError(e, env)

FirstMatch(e, env) ==
  IF \E i \in 1..Len(Chain) : Satisfies(e, Chain[i])
  THEN LET first == CHOOSE i \in 1..Len(Chain) :
                      /\ Satisfies(e, Chain[i])
                      /\ \A j \in 1..(i - 1) : ~Satisfies(e, Chain[j])
       IN HandlerOf(e, Chain[first], env)
  ELSE UnknownError(env)

\* C7: for every caught value the classifier returns exactly one record, the
\* one of the handler of the first predicate of the chain the value
\* satisfies, and the unknown-error record of status 500 when it satisfies
\* none.
C7_TotalFirstMatch ==
  (ret.threw /\ Classified) =>
    /\ response.sent
    /\ response.errorInfo = FirstMatch(ret.exception, nodeEnv)
    /\ (\A i \in 1..Len(Chain) : ~Satisfies(ret.exception, Chain[i])) =>
         (response.status = 500 /\ response.type = "UnknownError")

\* a storage failure: the driver's error for a rejected write, which has a
\* message text
StorageFailure(e) ==
  e.typeOf = "object" /\ e.lib = "mongodb" /\ e.message.t = "string"

\* C10: a caught storage failure with code 11000 and a keyValue classifies to
\* 409, DuplicateKeyError, DUPLICATE_KEY, its message holding the field and
\* the value when keyValue has exactly one field and being the generic one
\* otherwise, whatever its name and message text.
C10_DuplicateKeyIs409 ==
  (ret.threw /\ Classified /\ StorageFailure(ret.exception)
     /\ ret.exception.code = "11000" /\ ret.exception.hasKeyValue) =>
    /\ response.sent
    /\ response.status = 409
    /\ response.type = "DuplicateKeyError"
    /\ response.code = "DUPLICATE_KEY"
    /\ IF Len(ret.exception.keyValue) = 1
       THEN response.message.args = ret.exception.keyValue[1]
       ELSE response.message = Msg("Duplicate entry found", <<>>)

\* the names, codes and message texts the predicates of the chain look for
RecognizedNames ==
  standardMongooseErrors \cup connectionErrors
    \cup {"JsonWebTokenError", "TokenExpiredError", "NotBeforeError", "WriteConcernError",
          "MongoNetworkTimeoutError", "MongoAuthenticationError", "AxiosError"}

RecognizedCodes ==
  {"11000", "64", "50", "89", "18", "13", "ENOENT", "EACCES", "EMFILE", "ENOTDIR",
   "ECONNREFUSED", "ETIMEDOUT", "ENOTFOUND", "ECONNRESET", "EPERM"}

MessageMarker(message) ==
  /\ message.t = "string"
  /\ \/ StrIncludes(message.s, "mongoose") \/ StrIncludes(message.s, "timeout")
     \/ LowerIncludes(message.s, "permission") \/ LowerIncludes(message.s, "rate limit")

\* a value of no recognizable shape: a primitive, or an object that is no
\* Error and carries no name, code, status, message text or axios marker the
\* chain recognizes
NoShape(e) ==
  \/ e.typeOf # "object"
  \/ /\ ~e.isError /\ e.lib = "none"
     /\ e.name \notin RecognizedNames
     /\ e.code \notin RecognizedCodes
     /\ e.status # 429
     /\ ~MessageMarker(e.message)
     /\ e.axios = "none"
     /\ ~CtorIncludesMongoose(e)

\* C11: a caught value of no recognizable shape classifies to status 500,
\* type UnknownError, code UNKNOWN_ERROR with the fixed opaque message, and no
\* predicate of the chain throws while inspecting it.
C11_ShapelessIsUnknown ==
  (ret.threw /\ Classified /\ NoShape(ret.exception)) =>
    /\ response.sent
    /\ response.status = 500
    /\ response.type = "UnknownError"
    /\ response.code = "UNKNOWN_ERROR"
    /\ response.message = Msg("An unexpected error occurred", <<>>)

\* the kind of a caught value: the first link of the chain it satisfies
KindOf(e) ==
  IF formatException(e, "production").threw THEN "throw"
  ELSE IF \E i \in 1..Len(Chain) : Satisfies(e, Chain[i])
  THEN Chain[CHOOSE i \in 1..Len(Chain) :
               /\ Satisfies(e, Chain[i])
               /\ \A j \in 1..(i - 1) : ~Satisfies(e, Chain[j])]
  ELSE "unknown"

\* the texts a caught value may carry as its message
MessageTexts == {m \in Messages : m.t = "string"}

\* C12: in production the message of the response does not depend on the
\* message of the caught value: a value of the same kind that differs only in
\* its message is answered with the same message.
C12_MessageIndependent ==
  (ret.threw /\ response.sent /\ nodeEnv = "production") =>
    \A m \in MessageTexts :
      LET other == [ret.exception EXCEPT !.message = m]
      IN KindOf(other) = KindOf(ret.exception) =>
           catch(other, nodeEnv).message = response.message

\* C13: in production the body of the response has no details, and the record
\* the classifier returned carries none either.
C13_NoDetailsInProduction ==
  (ret.threw /\ response.sent /\ nodeEnv = "production") =>
    /\ ~response.hasDetails
    /\ response.details = "absent"
    /\ response.errorInfo.details \in {"absent", "undefined"}

\* a value that is answered with details in development was answered in production
C13_Witness ==
  /\ ret.threw /\ response.sent /\ nodeEnv = "production"
  /\ catch(ret.exception, "development").hasDetails

\* C23: a caught value named ValidationError that carries a `details` array
\* classifies to 400, ValidationError, VALIDATION_ERROR, and its message is
\* the sequence of the messages of its details, in order.
C23_DetailsAreTheMessage ==
  (ret.threw /\ Classified /\ ret.exception.typeOf = "object"
     /\ ret.exception.name = "ValidationError" /\ ret.exception.details = "array") =>
    /\ response.sent
    /\ response.status = 400
    /\ response.type = "ValidationError"
    /\ response.code = "VALIDATION_ERROR"
    /\ response.message = ArrayMsg(ret.exception.detailMessages)

\* a failure raised by the storage driver
DriverFailure(e) == e.typeOf = "object" /\ e.lib = "mongodb"

\* C24: a driver failure named MongoTimeoutError classifies to 408,
\* TimeoutError, DATABASE_TIMEOUT, one named MongoNetworkError to 503,
\* NetworkError, DATABASE_NETWORK_ERROR, and no value that is not a driver
\* failure receives either classification.
C24_DriverTimeoutAndNetwork ==
  (ret.threw /\ Classified) =>
    /\ (DriverFailure(ret.exception) /\ ret.exception.name = "MongoTimeoutError") =>
         /\ response.sent
         /\ response.status = 408
         /\ response.type = "TimeoutError"
         /\ response.code = "DATABASE_TIMEOUT"
    /\ (DriverFailure(ret.exception) /\ ret.exception.name = "MongoNetworkError") =>
         /\ response.sent
         /\ response.status = 503
         /\ response.type = "NetworkError"
         /\ response.code = "DATABASE_NETWORK_ERROR"
    /\ (response.sent /\ response.code \in {"DATABASE_TIMEOUT", "DATABASE_NETWORK_ERROR"}) =>
         DriverFailure(ret.exception)

(***************************************************************************)
(* Properties of the log entry, under SpecLogger.                          *)
(***************************************************************************)
\* the logged copy of one field: a sensitive name has the placeholder as its
\* value, any other field keeps its value, an object value field by field
RedactedCopy(field, copy) ==
  /\ copy.name = field.name
  /\ IF IsSensitive(field.name) THEN copy.value = Redacted
     ELSE IF field.value.t # "object" THEN copy.value = field.value
     ELSE /\ copy.value.t = "object"
          /\ Len(copy.value.fields) = Len(field.value.fields)
          /\ \A j \in DOMAIN field.value.fields :
               LET inner == field.value.fields[j]
                   innerCopy == copy.value.fields[j]
               IN /\ innerCopy.name = inner.name
                  /\ innerCopy.value =
                       IF IsSensitive(inner.name) THEN Redacted ELSE inner.value

\* C14: in the logged copy of the request body every field whose name
\* contains password, token, secret, key, auth or authorization in any case
\* has the placeholder as its value, and every other field keeps its value.
C14_SensitiveFieldsRedacted ==
  log.written =>
    IF httpRequest.body.t # "object" THEN log.body = httpRequest.body
    ELSE /\ log.body.t = "object"
         /\ Len(log.body.fields) = Len(httpRequest.body.fields)
         /\ \A i \in DOMAIN httpRequest.body.fields :
              RedactedCopy(httpRequest.body.fields[i], log.body.fields[i])

(***************************************************************************)
(* Properties of the pagination arithmetic, under SpecPagination.          *)
(***************************************************************************)
\* pages is ceil(items / size)
IsCeil(pages, items, size) == pages * size >= items /\ (pages - 1) * size < items

\* the page is the number skip / limit + 1
IsPageOf(pagination, request) ==
  /\ pagination.currentPageFinite
  /\ pagination.currentPage = request.skip \div request.limit + 1
  /\ pagination.currentPageRem = request.skip % request.limit

IsPageOne(pagination) ==
  /\ pagination.currentPageFinite
  /\ pagination.currentPage = 1
  /\ pagination.currentPageRem = 0

Failures(flight) ==
  {q.error : q \in {r \in {flight.data, flight.count} : r.state = "rejected"}}

\* C19: the find path starts the data query and the count query on one and
\* the same base filter before it awaits; it returns only when both are
\* fulfilled, and what it returns is the same whichever settles first; when a
\* query is rejected it throws that failure, with no other storage call and
\* no data.
C19_AwaitsBoth ==
  /\ inFlight.pc # "idle" =>
       /\ Len(inFlight.calls) = 2
       /\ inFlight.calls[1].kind = "find" /\ inFlight.calls[2].kind = "countDocuments"
       /\ inFlight.calls[1].filter = inFlight.calls[2].filter
       /\ inFlight.calls[1].filter =
            baseFilter(filterParamsDecoder(inFlight.params.filter).query)
  /\ (inFlight.pc = "awaiting") => ret = None
  /\ (inFlight.pc = "resumed" /\ ret.op = "getAllData" /\ ~ret.threw) =>
       /\ inFlight.data.state = "fulfilled" /\ inFlight.count.state = "fulfilled"
       /\ ret = getAllData(store, inFlight.params)
  /\ (inFlight.pc = "resumed" /\ Failures(inFlight) # {}) =>
       /\ ret.threw
       /\ ret.exception \in Failures(inFlight)
       /\ ret.docs = <<>> /\ ~ret.hasPagination

\* the count settled before the data, and the call returned documents
C19_Witness ==
  /\ inFlight.pc = "resumed" /\ ~ret.threw
  /\ inFlight.order = <<"count", "data">>
  /\ Len(ret.docs) > 0

=============================================================================
